---------------------------- MODULE Spec2Model ----------------------------
(***************************************************************************)
(* State-machine model of the streaming core of the Bybit trading          *)
(* dashboard backend:                                                      *)
(*   - the pub/sub hubs  (SocketIOService, WebSocketService)               *)
(*   - the market data service (MarketDataService, two variants)           *)
(*   - the rolling kline store inside the market data service              *)
(*                                                                         *)
(* The repository holds two hub classes and two variants of the market     *)
(* data service.  A run of the server instantiates one of each: hubKind    *)
(* and mdsKind say which, and are fixed by Init.                           *)
(***************************************************************************)
EXTENDS Integers, Sequences, FiniteSets, TLC

VARIABLES
    \* ---- pub/sub hub ----
    hubKind,        \* "io" = SocketIOService, "ws" = WebSocketService
    clients,        \* this.clients: registry, in insertion order (Map / Set)
    subscriptions,  \* per consumer: client.subscriptions / ws.subscriptions
    sockOpen,       \* per consumer: transport is open (ws.readyState === OPEN)
    stalled,        \* registered consumers whose transport is not draining what is sent to them
    lastAct,        \* what the handler that ran last did
    \* ---- market data service ----
    mdsKind,        \* "basic" = services/MarketDataService.js, "adv" = the extended variant
    marketData,     \* this.marketData : symbol -> ticker state
    klineData,      \* this.klineData  : symbol_interval -> candle array
    orderBookData,  \* this.orderBookData : symbol -> snapshot
    signalData,     \* this.signalData : symbol -> signal record
    volumeData,     \* this.volumeData : symbol -> 24h-volume samples
    scannerFilters, \* this.scannerFilters
    now,            \* Date.now(), in ticks
    alertTimes,     \* per symbol: times of the last two emitted "signals" events
    lastEval,       \* what the handler that ran last evaluated and emitted
    updates,        \* number of feed messages handled so far
    \* ---- signal service ----
    isGenerating,   \* this.isGenerating
    signalInterval, \* this.signalInterval: a timer handle, 0 for null
    liveTimers,     \* the interval timers the runtime still fires
    timersMade,     \* number of setInterval calls so far (handles are 1, 2, ...)
    hasMarketData,  \* this.marketDataService is set
    selectedCoins,  \* this.selectedCoins
    listeners,      \* number of 'marketUpdate' listeners the service has registered
    sigCalls,       \* generateSignal calls made by the last marketUpdate event
    sigLast,        \* the SignalService operation that ran last
    sigMade,        \* signals stored and announced ('newSignal') by the last step
    sigSuccess,     \* the success field of what the last start / stop returned
    checking,       \* timers whose callback waits in await getMarketData()
    signals,        \* this.signals: the ids of the active signals
    signalHistory,  \* this.signalHistory: the ids of the closed signals, oldest first
    idsMade,        \* how many signal ids have been generated
    \* ---- MarketDataService.initialize ----
    initPc,         \* where initialize() stands
    isInitialized,  \* this.isInitialized
    initResult,     \* how the promise of initialize() settled
    testOk,         \* outcome of testRestConnection()
    fetchOk,        \* outcome of fetchInitialData()
    feedState,      \* the upstream WebSocket connection of this.wsClient
    restFallbackInterval, \* this.restFallbackInterval is a live timer
    \* ---- console scanner (marketScanner.js) ----
    scTimeframe,    \* scannerState.timeframe
    scFilters,      \* scannerState.filters
    scData,         \* scannerState.marketData
    scHandlers,     \* number of 'update' listeners registered on wsClient
    scNow,          \* Date.now() of the scanner process, in ticks
    scAlerts,       \* per symbol: times of the last two alerts written
    scOpen,         \* the upstream connection of wsClient is open
    scReconnects,   \* setTimeout(..., 5000) reconnect timers not yet fired
    scRegistered,   \* timeframes whose kline topics an 'open' listener subscribes
    scTopics,       \* timeframes of the kline topics subscribed on the connection
    \* ---- detector functions applied to chosen inputs ----
    probe,          \* the last call of a detector: its arguments and its result
    returned,       \* the array a caller got from getKlineData
    \* ---- webhook routes: POST /send, DELETE /history ----
    whPc,           \* "idle", or "posting" while axios.post is awaited
    whUrl,          \* url of the request being handled
    whRetries,      \* retries of the request being handled
    whAttempt,      \* the loop variable attempt
    whPosts,        \* axios.post calls made for the request
    whFails,        \* axios.post calls of the request that rejected
    whDelays,       \* the setTimeout delays awaited between attempts, in ms
    whResponse,     \* the response sent for the request
    webhookHistory, \* let webhookHistory, newest entry first
    \* ---- PnLService ----
    pnlLoad,        \* position of the constructor's un-awaited initialize()
    trades,         \* this.trades, as the ids of the trades
    tradeFile,      \* data/trades.json on disk
    dataRead,       \* what the readFile of loadTrades completed with
    pnlSaves,       \* fs.writeFile calls of saveTrades not yet completed
    returnedTrades, \* ids of the trades addTrade has returned
    deletedTrades,  \* ids of the trades deleteTrade has spliced out
    tradeIds        \* trades built by addTrade so far

hubVars == <<hubKind, clients, subscriptions, sockOpen, stalled, lastAct>>
mdsVars == <<mdsKind, marketData, klineData, orderBookData, signalData,
             volumeData, scannerFilters, now, alertTimes, lastEval, updates>>
sigVars == <<isGenerating, signalInterval, liveTimers, timersMade, hasMarketData,
             selectedCoins, listeners, sigCalls, sigLast, sigMade, sigSuccess,
             checking, signals, signalHistory, idsMade>>
initVars == <<initPc, isInitialized, initResult, testOk, fetchOk, feedState,
              restFallbackInterval>>
scanVars == <<scTimeframe, scFilters, scData, scHandlers, scNow, scAlerts,
              scOpen, scReconnects, scRegistered, scTopics>>
whVars == <<whPc, whUrl, whRetries, whAttempt, whPosts, whFails, whDelays,
            whResponse, webhookHistory>>
pnlVars == <<pnlLoad, trades, tradeFile, dataRead, pnlSaves, returnedTrades,
             deletedTrades, tradeIds>>
detVars == <<probe, returned, whVars, pnlVars>>
vars == <<hubVars, mdsVars, sigVars, initVars, scanVars, detVars>>

(***************************************************************************)
(* Bounds of the model                                                     *)
(***************************************************************************)
NumConsumers == 2
Consumers == 1..NumConsumers

Channels == {"market", "signals"}
NoChannel == "null"          \* broadcast(event, data, channel = null)
NoSubs == {"undefined"}      \* ws.subscriptions never assigned / no registry entry

(***************************************************************************)
(* Helpers on sequences                                                    *)
(***************************************************************************)
Range(s) == {s[i] : i \in 1..Len(s)}

RECURSIVE WithoutAll(_, _)
\* Map.delete / Set.delete: the remaining entries keep their order
WithoutAll(s, gone) ==
    IF s = <<>> THEN <<>>
    ELSE IF Head(s) \in gone THEN WithoutAll(Tail(s), gone)
         ELSE <<Head(s)>> \o WithoutAll(Tail(s), gone)

Without(s, x) == WithoutAll(s, {x})

(***************************************************************************)
(*                         PUB/SUB HUB                                     *)
(***************************************************************************)
NoAct == [op |-> "none", channel |-> NoChannel, order |-> <<>>,
          subs |-> [c \in Consumers |-> NoSubs], failing |-> {},
          sent |-> {}, pruned |-> {}]

\* A hub starts with an empty registry; no socket exists yet.
InitHub ==
    /\ hubKind \in {"io", "ws"}
    /\ clients = <<>>
    /\ subscriptions = [c \in Consumers |-> NoSubs]
    /\ sockOpen = [c \in Consumers |-> FALSE]
    /\ stalled = {}
    /\ lastAct = NoAct

\* Mutant of Eligible: a consumer with an empty filter is served every channel.
EligibleEmptyMeansAll(c, channel) ==
    \/ channel = NoChannel
    \/ subscriptions[c] = NoSubs
    \/ subscriptions[c] = {}
    \/ channel \in subscriptions[c]

\* Mutant of Eligible: any subscription at all opens every channel.
EligibleAnySubscription(c, channel) ==
    \/ channel = NoChannel
    \/ (hubKind = "ws" /\ subscriptions[c] = NoSubs)
    \/ (subscriptions[c] # NoSubs /\ subscriptions[c] # {})

\* The channel test of broadcast:
\*   io: !channel || client.subscriptions.has(channel)
\*   ws: !channel || !client.subscriptions || client.subscriptions.has(channel)
Eligible(c, channel) ==
    \/ channel = NoChannel
    \/ (hubKind = "ws" /\ subscriptions[c] = NoSubs)
    \/ (subscriptions[c] # NoSubs /\ channel \in subscriptions[c])

\* What broadcast does with one registry entry.
\*   "sent"   : emit/send returned (the packet is now in the socket's buffer)
\*   "pruned" : emit/send threw, or (ws) the socket is not OPEN: clients.delete
\*   "skip"   : the consumer is not subscribed to the channel
Deliver(c, channel, failing) ==
    IF hubKind = "ws" /\ ~sockOpen[c] THEN "pruned"
    ELSE IF ~Eligible(c, channel) THEN "skip"
    ELSE IF c \in failing THEN "pruned"
    ELSE "sent"

\* The consumers for which broadcast calls emit/send
Attempted(channel) == {c \in Range(clients) : Deliver(c, channel, {}) = "sent"}

RECURSIVE BroadcastAwaitingFlush(_, _, _)
\* Mutant of BroadcastLoop: the loop waits for each send to be written out
\* before it goes on, so it never gets past a stalled consumer.
BroadcastAwaitingFlush(order, channel, failing) ==
    IF order = <<>> THEN [sent |-> {}, pruned |-> {}]
    ELSE LET c == Head(order)
             d == Deliver(c, channel, failing)
         IN  IF d = "sent" /\ c \in stalled
             THEN [sent |-> {}, pruned |-> {}]
             ELSE LET rest == BroadcastAwaitingFlush(Tail(order), channel, failing)
                  IN  [sent   |-> rest.sent \cup (IF d = "sent" THEN {c} ELSE {}),
                       pruned |-> rest.pruned \cup (IF d = "pruned" THEN {c} ELSE {})]

RECURSIVE BroadcastNoCatch(_, _, _)
\* Mutant of BroadcastLoop: no try/catch around the send, so the first throw
\* leaves forEach and nobody is pruned.
BroadcastNoCatch(order, channel, failing) ==
    IF order = <<>> THEN [sent |-> {}, pruned |-> {}]
    ELSE LET c == Head(order)
             d == Deliver(c, channel, failing)
         IN  IF d = "pruned" /\ c \in failing /\ (hubKind = "io" \/ sockOpen[c])
             THEN [sent |-> {}, pruned |-> {}]
             ELSE LET rest == BroadcastNoCatch(Tail(order), channel, failing)
                  IN  [sent   |-> rest.sent \cup (IF d = "sent" THEN {c} ELSE {}),
                       pruned |-> rest.pruned \cup (IF d = "pruned" THEN {c} ELSE {})]

RECURSIVE BroadcastLoop(_, _, _)
\* this.clients.forEach(...) of broadcast, over the registry in insertion
\* order.  Deleting the entry being visited does not disturb the iteration.
BroadcastLoop(order, channel, failing) ==
    IF order = <<>> THEN [sent |-> {}, pruned |-> {}]
    ELSE LET c == Head(order)
             d == Deliver(c, channel, failing)
             rest == BroadcastLoop(Tail(order), channel, failing)
         IN  [sent   |-> rest.sent \cup (IF d = "sent" THEN {c} ELSE {}),
              pruned |-> rest.pruned \cup (IF d = "pruned" THEN {c} ELSE {})]

\* io.on('connection') / wss.on('connection'): register, greet.
Connect(c) ==
    /\ ~sockOpen[c]
    /\ c \notin Range(clients)
    /\ clients' = Append(clients, c)
    /\ subscriptions' = [subscriptions EXCEPT
                            ![c] = IF hubKind = "io" THEN {} ELSE NoSubs]
    /\ sockOpen' = [sockOpen EXCEPT ![c] = TRUE]
    /\ lastAct' = NoAct
    /\ UNCHANGED <<hubKind, stalled>>

\* io: const client = this.clients.get(socket.id); if (!client) return;
\* ws: the handler works on the socket object and never looks at the registry
UnregisteredIgnored(c) == FALSE

Unregistered(c) == hubKind = "io" /\ c \notin Range(clients)

\* channels.forEach(channel => subscriptions.add(channel)), on a Set
AddChannelsToggling(subs, chs) ==
    LET old == IF subs = NoSubs THEN {} ELSE subs
    IN  (old \ chs) \cup (chs \ old)

AddChannels(subs, chs) == (IF subs = NoSubs THEN {} ELSE subs) \cup chs

\* channels.forEach(channel => subscriptions.delete(channel)); the ws hub skips
\* it while the socket has no subscription set yet
RemoveChannels(subs, chs) == IF subs = NoSubs THEN NoSubs ELSE subs \ chs

\* handleSubscription(socket, {channels})
HandleSubscription(c, chs) ==
    /\ sockOpen[c]
    /\ IF Unregistered(c)
       THEN UNCHANGED subscriptions
       ELSE subscriptions' = [subscriptions EXCEPT ![c] = AddChannels(@, chs)]
    /\ lastAct' = NoAct
    /\ UNCHANGED <<hubKind, clients, sockOpen, stalled>>

\* handleUnsubscription(socket, {channels})
HandleUnsubscription(c, chs) ==
    /\ sockOpen[c]
    /\ IF Unregistered(c)
       THEN UNCHANGED subscriptions
       ELSE subscriptions' = [subscriptions EXCEPT ![c] = RemoveChannels(@, chs)]
    /\ lastAct' = NoAct
    /\ UNCHANGED <<hubKind, clients, sockOpen, stalled>>

\* What becomes of a TypeError thrown in a message handler: the ws hub calls
\* its handlers inside the try / catch of ws.on('message'); the Socket.IO hub
\* calls them from socket.on(...) with nothing around them.
Thrown == IF hubKind = "ws" THEN "caught" ELSE "uncaught"

\* The payloads without a channels list: no payload at all (data undefined;
\* on the ws hub the message is only { type }), or an object without channels.
BadPayloads == {"none", "nochannels"}

\* handleSubscription(socket, data) where data.channels is undefined.
\* io: const { channels } = data throws on undefined data; otherwise the
\*     registry test comes first and channels.forEach throws after it.
\* ws: ws.subscriptions = new Set() comes first, then channels.forEach throws.
HandleSubscriptionNoChannels(c, payload) ==
    /\ sockOpen[c]
    /\ subscriptions' = IF hubKind = "ws" /\ subscriptions[c] = NoSubs
                        THEN [subscriptions EXCEPT ![c] = {}]
                        ELSE subscriptions
    /\ lastAct' = [NoAct EXCEPT
                     !.op = IF hubKind = "io" /\ payload # "none" /\ Unregistered(c)
                            THEN "returned" ELSE Thrown]
    /\ UNCHANGED <<hubKind, clients, sockOpen, stalled>>

\* handleUnsubscription(socket, data) where data.channels is undefined.
\* ws: without a subscription set the forEach is skipped and the
\*     confirmation is sent; with one, channels.forEach throws.
HandleUnsubscriptionNoChannels(c, payload) ==
    /\ sockOpen[c]
    /\ lastAct' = [NoAct EXCEPT
                     !.op = IF hubKind = "io"
                            THEN IF payload # "none" /\ Unregistered(c)
                                 THEN "returned" ELSE Thrown
                            ELSE IF subscriptions[c] = NoSubs
                                 THEN "returned" ELSE Thrown]
    /\ UNCHANGED <<hubKind, clients, subscriptions, sockOpen, stalled>>

\* The registry entry of a consumer that left: io keeps the subscriptions in
\* the entry (gone with it), ws keeps them on the socket object.
Forget(c) ==
    [subscriptions EXCEPT ![c] = IF hubKind = "io" THEN NoSubs ELSE @]

\* socket.on('disconnect') / ws.on('close'): the socket object is gone for good.
HandleDisconnect(c) ==
    /\ sockOpen[c] \/ c \in Range(clients)
    /\ clients' = Without(clients, c)
    /\ subscriptions' = [subscriptions EXCEPT ![c] = NoSubs]
    /\ sockOpen' = [sockOpen EXCEPT ![c] = FALSE]
    /\ stalled' = stalled \ {c}
    /\ lastAct' = NoAct
    /\ UNCHANGED hubKind

\* socket.on('error') / ws.on('error'): the entry is deleted, the socket stays.
HandleError(c) ==
    /\ sockOpen[c]
    /\ c \in Range(clients)
    /\ clients' = Without(clients, c)
    /\ subscriptions' = Forget(c)
    /\ stalled' = stalled \ {c}
    /\ lastAct' = NoAct
    /\ UNCHANGED <<hubKind, sockOpen>>

\* ws only: readyState leaves OPEN before the 'close' event is delivered.
\* Nothing is sent to the socket any more, and nothing reads ws.subscriptions
\* again (broadcast tests readyState first, no message arrives on the socket),
\* so the model forgets both.
WsClosing(c) ==
    /\ hubKind = "ws"
    /\ sockOpen[c]
    /\ c \in Range(clients)
    /\ sockOpen' = [sockOpen EXCEPT ![c] = FALSE]
    /\ subscriptions' = [subscriptions EXCEPT ![c] = NoSubs]
    /\ stalled' = stalled \ {c}
    /\ lastAct' = NoAct
    /\ UNCHANGED <<hubKind, clients>>

\* The peer of c stops reading: what emit/send hands to the socket of c from
\* now on stays in its buffer.  Only registered consumers are sent anything.
Stall(c) ==
    /\ sockOpen[c]
    /\ c \in Range(clients)
    /\ c \notin stalled
    /\ stalled' = stalled \cup {c}
    /\ lastAct' = NoAct
    /\ UNCHANGED <<hubKind, clients, subscriptions, sockOpen>>

\* The peer of c reads again and the transport writes the buffer out.
Flush(c) ==
    /\ c \in stalled
    /\ stalled' = stalled \ {c}
    /\ lastAct' = NoAct
    /\ UNCHANGED <<hubKind, clients, subscriptions, sockOpen>>

\* broadcast(event, data, channel): failing = the consumers whose emit/send
\* throws in this call.  emit/send put the packet in the socket's buffer and
\* return; they do not wait for the peer.
Broadcast(channel, failing) ==
    LET r == BroadcastLoop(clients, channel, failing)
    IN  /\ clients' = WithoutAll(clients, r.pruned)
        /\ subscriptions' = [c \in Consumers |->
              IF c \in r.pruned /\ hubKind = "io" THEN NoSubs ELSE subscriptions[c]]
        /\ lastAct' = [op |-> "broadcast", channel |-> channel, order |-> clients,
                       subs |-> subscriptions,
                       failing |-> failing,
                       sent |-> r.sent, pruned |-> r.pruned]
        /\ stalled' = stalled \ r.pruned
        /\ UNCHANGED <<hubKind, sockOpen>>

\* the hub and the signal service are idle
hubIdle ==
    /\ UNCHANGED <<hubKind, clients, subscriptions, sockOpen, stalled, lastAct>>
    /\ UNCHANGED sigVars
    /\ UNCHANGED initVars
    /\ UNCHANGED scanVars
    /\ UNCHANGED detVars

(***************************************************************************)
(*                      MARKET DATA SERVICE: values                        *)
(*                                                                         *)
(* Numbers are JS doubles that may be NaN.  Magnitudes are integers:       *)
(* thresholds are kept in thousandths (1.01 -> 1010), the 24h change in    *)
(* hundredths (0.1 -> 10) and the 24h volume in thousands (5000000 ->      *)
(* 5000), so every comparison of the code is computed exactly, without     *)
(* rounding, in 32-bit integers.                                           *)
(***************************************************************************)
Num(v) == [nan |-> FALSE, v |-> v]
NaN == [nan |-> TRUE, v |-> 0]

\* A field of a feed record as it arrives: a numeric string, a string that is
\* no number, or nothing at all.
Field(v) == [kind |-> "num", v |-> v]
Missing == [kind |-> "missing", v |-> 0]
Malformed == [kind |-> "bad", v |-> 0]

\* parseFloat(x): NaN for undefined and for a non-numeric string
parseFloat(f) == IF f.kind = "num" THEN Num(f.v) ELSE NaN

\* x || 0
OrZero(x) == IF x.nan THEN 0 ELSE x.v

Abs(i) == IF i < 0 THEN -i ELSE i

ValidSymbols == {"BTCUSDT", "ETHUSDT"}
FeedSymbols == {"BTCUSDT", "ETHUSDT", "BTCUPUSDT"}
Intervals == {"1m", "5m"}
KlineKeys == FeedSymbols \X Intervals

\* isValidSymbol(symbol): USDT pair, no leading digits, no UP/DOWN/BEAR/BULL
isValidSymbol(symbol) == symbol \in ValidSymbols

TickerFields == {"price", "change24h", "volume24h", "turnover24h"}

AbsentMD == [present |-> FALSE, price |-> NaN, change24h |-> NaN,
             volume24h |-> NaN, turnover24h |-> NaN,
             hasSignals |-> FALSE, activeFilters |-> <<>>]
AbsentSD == [present |-> FALSE, signals |-> <<>>]
AbsentOB == [present |-> FALSE, bids |-> <<>>, asks |-> <<>>]

\* Program constants
MaxCandles == 100          \* if (klineArray.length > 100) klineArray.shift()
MaxVolumeSamples == 20     \* if (historicalData.length > 20) historicalData.shift()
MinVolumeSamples == 5      \* if (historicalData.length < 5)
RecentCandles == 10        \* klineArray.slice(-10)
TopLevels == 10            \* orderBook.b.slice(0, 10)

\* Bounds
MaxUpdates == 3            \* feed messages handled in one run of the model
MaxNow == 2                \* clock ticks in one run of the model
MinAlertInterval == 2      \* the minimum alert interval of the rate limit, in ticks

RECURSIVE SumSeq(_)
SumSeq(s) == IF s = <<>> THEN 0 ELSE Head(s) + SumSeq(Tail(s))

\* arr.slice(-n)
LastN(s, n) == IF Len(s) <= n THEN s ELSE SubSeq(s, Len(s) - n + 1, Len(s))
\* arr.slice(0, n)
FirstN(s, n) == IF Len(s) <= n THEN s ELSE SubSeq(s, 1, n)
\* arr.reverse()
Reverse(s) == [i \in 1..Len(s) |-> s[Len(s) + 1 - i]]

(***************************************************************************)
(*                      Rolling kline store                                *)
(***************************************************************************)
\* klineArray.findIndex(k => k.timestamp === klineData.timestamp); 0 for -1
FindIndex(arr, ts) ==
    IF \E i \in 1..Len(arr) : arr[i].timestamp = ts
    THEN CHOOSE i \in 1..Len(arr) :
            /\ arr[i].timestamp = ts
            /\ \A j \in 1..(i - 1) : arr[j].timestamp # ts
    ELSE 0

\* Mutant of UpsertKline: a candle with a known open time is appended again.
UpsertKlineAlwaysPush(arr, k) ==
    LET a == Append(arr, k)
    IN  IF Len(a) > MaxCandles THEN Tail(a) ELSE a

\* Mutant of UpsertKline: the overflow check is off by one candle.
UpsertKlineShiftLate(arr, k) ==
    LET i == FindIndex(arr, k.timestamp)
    IN  IF i > 0 THEN [arr EXCEPT ![i] = k]
        ELSE LET a == Append(arr, k)
             IN  IF Len(a) > MaxCandles + 1 THEN Tail(a) ELSE a

\* "Update or add new kline" of handleKlineUpdate
UpsertKline(arr, k) ==
    LET i == FindIndex(arr, k.timestamp)
    IN  IF i > 0 THEN [arr EXCEPT ![i] = k]
        ELSE LET a == Append(arr, k)
             IN  IF Len(a) > MaxCandles THEN Tail(a) ELSE a

(***************************************************************************)
(*          Detectors of the extended variant (candles newest first)       *)
(***************************************************************************)
RECURSIVE SumVolume(_)
SumVolume(cs) == IF cs = <<>> THEN 0 ELSE Head(cs).volume + SumVolume(Tail(cs))

\* klineArray.slice(-10).reverse(), null (here <<>>) for an empty array
CandlesOf(klineArray) == Reverse(LastN(klineArray, RecentCandles))

\* detectVolumeSpike(candles, threshold): currentVolume > avgVolume * threshold
detectVolumeSpike(candles, threshold) ==
    IF Len(candles) < 2 THEN FALSE
    ELSE LET prev == Tail(candles)
             sum == SumVolume(prev)
             cur == candles[1].volume
         IN  IF sum = 0 THEN cur > 0
             ELSE cur * Len(prev) * 1000 > sum * threshold

\* detectPriceBreakout(candles, threshold)
detectPriceBreakout(candles, threshold) ==
    IF Len(candles) < 2 THEN [isBreakout |-> FALSE, direction |-> "null"]
    ELSE LET cur == candles[1].close
             prev == candles[2].close
         IN  IF cur * 1000 > prev * threshold
             THEN [isBreakout |-> TRUE, direction |-> "up"]
             ELSE IF cur * threshold < prev * 1000
             THEN [isBreakout |-> TRUE, direction |-> "down"]
             ELSE [isBreakout |-> FALSE, direction |-> "null"]

\* detectOrderBookImbalance(orderBook, threshold): ratio = bidVolume / askVolume
\* over the top 10 levels; x/0 is Infinity for x > 0 and NaN for x = 0.
detectOrderBookImbalance(ob, threshold) ==
    LET bid == SumSeq(FirstN(ob.bids, TopLevels))
        ask == SumSeq(FirstN(ob.asks, TopLevels))
        above == IF ask = 0 THEN bid > 0 ELSE bid * 1000 > ask * threshold
        below == IF ask = 0 THEN FALSE ELSE bid * threshold < ask * 1000
    IN  [isImbalanced |-> above \/ below,
         direction |-> IF above THEN "buy" ELSE IF below THEN "sell" ELSE "null"]

\* One side of detectLiquidityWalls: some level is above avg * threshold
HasWall(levels, threshold) ==
    /\ levels # <<>>
    /\ \E i \in 1..Len(levels) :
          levels[i] * Len(levels) * 1000 > SumSeq(levels) * threshold

\* detectLiquidityWalls(orderBook, threshold)
detectLiquidityWalls(ob, threshold) ==
    [hasWalls |-> HasWall(ob.bids, threshold) \/ HasWall(ob.asks, threshold),
     buy |-> HasWall(ob.bids, threshold), sell |-> HasWall(ob.asks, threshold)]

\* detectWhaleActivityAdvanced(marketData, candles): the finding's type, or "null"
detectWhaleActivityAdvanced(md, candles) ==
    IF Len(candles) < 2 THEN "null"
    ELSE LET turnover == OrZero(md.turnover24h)
             change == Abs(OrZero(md.change24h))
             recent == SubSeq(candles, 2, IF Len(candles) < 6 THEN Len(candles) ELSE 6)
         IN  IF turnover > 10000 /\ change > 10
             THEN "large_volume_movement"
             ELSE IF /\ candles[1].volume * Len(recent) * 10 > SumVolume(recent) * 11
                     /\ turnover > 5000
             THEN "volume_spike_whale"
             ELSE "null"

Opt(cond, x) == IF cond THEN <<x>> ELSE <<>>

\* checkForSignalsAdvanced(symbol), on the maps as the caller left them.
\*   ran     : the evaluation got past "if (!marketData) return"
\*   signals : detectedSignals
\*   emitted : this.emit('signals', ...) was called
CheckForSignalsAdvanced(symbol, md, kl, ob, sd) ==
    IF ~md[symbol].present
    THEN [ran |-> FALSE, md |-> md, sd |-> sd, signals |-> <<>>, emitted |-> FALSE]
    ELSE LET candles == CandlesOf(kl[<<symbol, "1m">>])
             book == ob[symbol]
             volumeSpike == detectVolumeSpike(candles, scannerFilters.volumeSpike)
             priceBreakout == detectPriceBreakout(candles, scannerFilters.priceBreakout)
             imbalance == IF book.present THEN detectOrderBookImbalance(book, 1010)
                          ELSE [isImbalanced |-> FALSE, direction |-> "null"]
             walls == IF book.present THEN detectLiquidityWalls(book, 1020)
                      ELSE [hasWalls |-> FALSE, buy |-> FALSE, sell |-> FALSE]
             whale == detectWhaleActivityAdvanced(md[symbol], candles) # "null"
             \* detectedSignals, in the order of the pushes
             detected ==
                 Opt(volumeSpike, "volume_spike")
                 \o Opt(priceBreakout.isBreakout, "price_breakout")
                 \o Opt(imbalance.isImbalanced /\ scannerFilters.spoofDetection,
                        "spoof_detection")
                 \o Opt(walls.hasWalls /\ scannerFilters.liquidityImbalance,
                        "liquidity_imbalance")
                 \o Opt(whale /\ scannerFilters.whaleAlerts, "whale_alert")
             \* allFilters.filter(filter => filter.isActive)
             active ==
                 Opt(volumeSpike, "volume_spike")
                 \o Opt(priceBreakout.isBreakout, "price_breakout")
                 \o Opt(imbalance.isImbalanced, "spoof_detection")
                 \o Opt(whale, "whale_alert")
             \* the pushes inside "if (hasSignal)"
             legacy ==
                 Opt(volumeSpike, "volume_spike")
                 \o Opt(priceBreakout.isBreakout, "price_breakout")
                 \o Opt(imbalance.isImbalanced, "spoof_detection")
                 \o Opt(walls.hasWalls, "liquidity_imbalance")
                 \o Opt(whale, "whale_alert")
         IN  IF detected # <<>>
             THEN [ran |-> TRUE,
                   md |-> [md EXCEPT ![symbol] =
                             [@ EXCEPT !.hasSignals = TRUE,
                                       !.activeFilters = active \o legacy]],
                   sd |-> [sd EXCEPT ![symbol] =
                             [present |-> TRUE, signals |-> detected]],
                   signals |-> detected, emitted |-> TRUE]
             ELSE \* this.signalData.delete(symbol); the market entry is not touched
                  [ran |-> TRUE, md |-> md,
                   sd |-> [sd EXCEPT ![symbol] = AbsentSD],
                   signals |-> <<>>, emitted |-> FALSE]

(***************************************************************************)
(*        Detectors of checkForSignals (the ticker path, both variants)    *)
(***************************************************************************)
RECURSIVE SumNum(_)
\* historicalData.reduce((a, b) => a + b, 0): NaN as soon as one sample is NaN
SumNum(s) ==
    IF s = <<>> THEN Num(0)
    ELSE LET rest == SumNum(Tail(s))
         IN  IF Head(s).nan \/ rest.nan THEN NaN ELSE Num(Head(s).v + rest.v)

\* detectVolumeSpike(marketData) of the basic variant: the finding (or none)
\* and the volume history it leaves behind.
detectVolumeSpike24h(entry, hist, threshold) ==
    IF Len(hist) < MinVolumeSamples
    THEN [found |-> FALSE, hist |-> Append(hist, entry.volume24h)]
    ELSE LET sum == SumNum(hist)
             cur == entry.volume24h
             spike == IF sum.nan \/ cur.nan THEN FALSE
                      ELSE IF sum.v = 0 THEN cur.v > 0
                      ELSE cur.v * Len(hist) * 1000 >= sum.v * threshold
             pushed == Append(hist, cur)
         IN  IF spike THEN [found |-> TRUE, hist |-> hist]
             ELSE [found |-> FALSE,
                   hist |-> IF Len(pushed) > MaxVolumeSamples THEN Tail(pushed) ELSE pushed]

\* detectPriceBreakout(marketData) of the basic variant, on the stored array
detectPriceBreakoutStored(klineArray, threshold) ==
    IF Len(klineArray) < 2 THEN FALSE
    ELSE LET cur == klineArray[Len(klineArray)].close
             prev == klineArray[Len(klineArray) - 1].close
         IN  IF prev = 0 THEN cur > 0
             ELSE \/ cur * 1000 >= prev * threshold
                  \/ cur * 1000 <= prev * (2000 - threshold)

\* direction: breakoutRatio >= this.scannerFilters.priceBreakout ? 'up' : 'down'
StoredBreakoutDirection(klineArray, threshold) ==
    IF ~detectPriceBreakoutStored(klineArray, threshold) THEN "null"
    ELSE LET cur == klineArray[Len(klineArray)].close
             prev == klineArray[Len(klineArray) - 1].close
         IN  IF prev = 0 \/ cur * 1000 >= prev * threshold THEN "up" ELSE "down"

\* detectSpoof(marketData): volume > 1000000 && Math.random() < 0.1
detectSpoof(entry, draw) ==
    ~entry.volume24h.nan /\ entry.volume24h.v > 1000 /\ draw

\* detectWhaleActivity(marketData): volume > 5000000 && change > 3
detectWhaleActivity(entry) ==
    /\ ~entry.volume24h.nan
    /\ entry.volume24h.v > 5000
    /\ Abs(OrZero(entry.change24h)) > 300

\* detectLiquidityImbalance(marketData): lastCandle.volume > avgVolume * 3
detectLiquidityImbalance(klineArray) ==
    /\ Len(klineArray) >= 5
    /\ LET recent == LastN(klineArray, 5)
       IN  recent[5].volume * 5 > SumVolume(recent) * 3

\* In the extended variant the class defines detectVolumeSpike and
\* detectPriceBreakout a second time, for candle arrays; checkForSignals calls
\* them with the market entry, and candles.slice / candles[0][4] throw.
LegacyThrows ==
    mdsKind = "adv" /\ (scannerFilters.volumeSpike # 0 \/ scannerFilters.priceBreakout # 0)

\* checkForSignals(marketData) where it does not throw
CheckForSignals(entry, symbol, hist, kl, draw) ==
    LET vs == IF mdsKind = "basic" /\ scannerFilters.volumeSpike # 0
              THEN detectVolumeSpike24h(entry, hist, scannerFilters.volumeSpike)
              ELSE [found |-> FALSE, hist |-> hist]
        pb == /\ mdsKind = "basic"
              /\ scannerFilters.priceBreakout # 0
              /\ detectPriceBreakoutStored(kl[<<symbol, "1m">>], scannerFilters.priceBreakout)
        detected ==
            Opt(vs.found, "volume_spike")
            \o Opt(pb, "price_breakout")
            \o Opt(scannerFilters.spoofDetection /\ detectSpoof(entry, draw),
                   "spoof_detection")
            \o Opt(scannerFilters.whaleAlerts /\ detectWhaleActivity(entry), "whale_alert")
            \o Opt(scannerFilters.liquidityImbalance
                     /\ detectLiquidityImbalance(kl[<<symbol, "1m">>]),
                   "liquidity_imbalance")
    IN  [hist |-> vs.hist, signals |-> detected]

(***************************************************************************)
(*                  MARKET DATA SERVICE: state and handlers                *)
(***************************************************************************)
NoEval == [op |-> "none", symbols |-> <<>>, processed |-> <<>>, emitted |-> 0, zero |-> {},
           found |-> {}, thrown |-> FALSE,
           key |-> <<"", "">>, kline |-> <<>>, seriesBefore |-> <<>>,
           patch |-> <<>>, filtersBefore |-> <<>>, bookBefore |-> <<>>]

InitFilters ==
    IF mdsKind = "basic"
    THEN [volumeSpike |-> 1200, priceBreakout |-> 1010, spoofDetection |-> TRUE,
          whaleAlerts |-> TRUE, liquidityImbalance |-> TRUE]
    ELSE [volumeSpike |-> 1010, priceBreakout |-> 1001, spoofDetection |-> TRUE,
          whaleAlerts |-> TRUE, liquidityImbalance |-> TRUE]

\* The constructor: every map is empty.
InitMds ==
    /\ mdsKind \in {"basic", "adv"}
    /\ marketData = [s \in FeedSymbols |-> AbsentMD]
    /\ klineData = [k \in KlineKeys |-> <<>>]
    /\ orderBookData = [s \in FeedSymbols |-> AbsentOB]
    /\ signalData = [s \in FeedSymbols |-> AbsentSD]
    /\ volumeData = [s \in FeedSymbols |-> <<>>]
    /\ scannerFilters = InitFilters
    /\ now = 0
    /\ alertTimes = [s \in FeedSymbols |-> <<>>]
    /\ lastEval = NoEval
    /\ updates = 0

\* The times of the last two "signals" events of a symbol
RecordAlert(al, symbol, t) ==
    [al EXCEPT ![symbol] = IF Len(@) < 2 THEN Append(@, t) ELSE <<@[2], t>>]

\* The object literal of handleTickerUpdate:
\*   { ...currentData, symbol, price: parseFloat(ticker.lastPrice), ... }
MergeTicker(cur, t) ==
    [cur EXCEPT !.present = TRUE,
                !.price = parseFloat(t.lastPrice),
                !.change24h = parseFloat(t.price24hPcnt),
                !.volume24h = parseFloat(t.volume24h),
                !.turnover24h = parseFloat(t.turnover24h)]

\* The body of data.data.forEach in handleTickerUpdate, for one ticker.
\* acc carries the maps, what was emitted, and whether an exception has
\* already left the loop.
ProcessTicker(acc, t, draw) ==
    IF acc.thrown THEN acc
    ELSE IF mdsKind = "adv" /\ ~isValidSymbol(t.symbol) THEN acc
    ELSE
      LET sym == t.symbol
          upd == MergeTicker(acc.md[sym], t)
          md1 == [acc.md EXCEPT ![sym] = upd]
          rec == [symbol |-> sym, input |-> t, before |-> acc.md[sym], after |-> upd]
          acc1 == [acc EXCEPT !.md = md1, !.processed = Append(@, rec)]
      IN  IF LegacyThrows THEN [acc1 EXCEPT !.thrown = TRUE]
          ELSE
            LET leg == CheckForSignals(upd, sym, acc.vd[sym], klineData, draw)
                e1 == leg.signals # <<>>
                al1 == IF e1 THEN RecordAlert(acc.al, sym, now) ELSE acc.al
                adv == IF mdsKind = "adv"
                       THEN CheckForSignalsAdvanced(sym, md1, klineData,
                                                    orderBookData, acc.sd)
                       ELSE [ran |-> FALSE, md |-> md1, sd |-> acc.sd,
                             signals |-> <<>>, emitted |-> FALSE]
                al2 == IF adv.emitted THEN RecordAlert(al1, sym, now) ELSE al1
                none == IF mdsKind = "adv" THEN adv.ran /\ adv.signals = <<>>
                        ELSE leg.signals = <<>>
            IN  [acc1 EXCEPT
                   !.md = adv.md, !.sd = adv.sd,
                   !.vd = [@ EXCEPT ![sym] = leg.hist],
                   !.al = al2,
                   !.emitted = @ + (IF e1 THEN 1 ELSE 0) + (IF adv.emitted THEN 1 ELSE 0),
                   !.zero = IF none THEN @ \cup {sym} ELSE @ \ {sym},
                   !.found = IF none THEN @ \ {sym} ELSE @ \cup {sym}]

RECURSIVE TickerLoop(_, _, _)
\* data.data.forEach((ticker, index) => ...)
TickerLoop(acc, msg, draws) ==
    IF msg = <<>> THEN acc
    ELSE TickerLoop(ProcessTicker(acc, Head(msg), Head(draws)), Tail(msg), Tail(draws))

\* handleTickerUpdate(data), reached through the try/catch of
\* handleWebSocketUpdate, which swallows whatever the loop throws.
HandleTickerUpdate(msg, draws) ==
    LET acc0 == [md |-> marketData, sd |-> signalData, vd |-> volumeData,
                 al |-> alertTimes, processed |-> <<>>, emitted |-> 0,
                 zero |-> {}, found |-> {}, thrown |-> FALSE]
    IN  \E r \in {TickerLoop(acc0, msg, draws)} :
        /\ marketData' = r.md
        /\ signalData' = r.sd
        /\ volumeData' = r.vd
        /\ alertTimes' = r.al
        /\ lastEval' = [NoEval EXCEPT !.op = "ticker",
                                      !.symbols = [i \in 1..Len(msg) |-> msg[i].symbol],
                                      !.processed = r.processed,
                                      !.emitted = r.emitted, !.zero = r.zero,
                                      !.found = r.found, !.thrown = r.thrown]
        /\ updates' = updates + 1
        /\ UNCHANGED <<mdsKind, klineData, orderBookData, scannerFilters, now>>

\* handleKlineUpdate(data) for a message that carries one kline
HandleKlineUpdate(symbol, interval, k) ==
    IF mdsKind = "adv" /\ ~isValidSymbol(symbol)
    THEN /\ lastEval' = [NoEval EXCEPT !.op = "kline-ignored"]
         /\ updates' = updates + 1
         /\ UNCHANGED <<mdsKind, marketData, klineData, orderBookData, signalData,
                        volumeData, scannerFilters, now, alertTimes>>
    ELSE
      LET key == <<symbol, interval>>
          kl1 == [klineData EXCEPT ![key] = UpsertKline(@, k)]
          r == IF mdsKind = "adv"
               THEN CheckForSignalsAdvanced(symbol, marketData, kl1,
                                            orderBookData, signalData)
               ELSE [ran |-> FALSE, md |-> marketData, sd |-> signalData,
                     signals |-> <<>>, emitted |-> FALSE]
      IN  /\ klineData' = kl1
          /\ marketData' = r.md
          /\ signalData' = r.sd
          /\ alertTimes' = IF r.emitted THEN RecordAlert(alertTimes, symbol, now)
                           ELSE alertTimes
          /\ lastEval' = [NoEval EXCEPT
                            !.op = "kline",
                            !.emitted = IF r.emitted THEN 1 ELSE 0,
                            !.zero = IF r.ran /\ r.signals = <<>> THEN {symbol} ELSE {},
                            !.found = IF r.emitted THEN {symbol} ELSE {},
                            !.key = key, !.kline = <<k>>,
                            !.seriesBefore = klineData[key]]
          /\ updates' = updates + 1
          /\ UNCHANGED <<mdsKind, orderBookData, volumeData, scannerFilters, now>>

\* Mutant of StoreBook: a side the message leaves empty keeps its stored levels.
StoreBookMerging(old, book) ==
    [present |-> TRUE,
     bids |-> IF book.bids = <<>> /\ old.present THEN old.bids ELSE book.bids,
     asks |-> IF book.asks = <<>> /\ old.present THEN old.asks ELSE book.asks]

\* The object handleOrderBookUpdate stores in place of the old snapshot:
\*   { bids: data.data.b || [], asks: data.data.a || [], timestamp }
StoreBook(old, book) ==
    [present |-> TRUE, bids |-> book.bids, asks |-> book.asks]

\* handleOrderBookUpdate(data): only the extended variant subscribes to and
\* dispatches the orderbook topic.
HandleOrderBookUpdate(symbol, book) ==
    /\ mdsKind = "adv"
    /\ IF ~isValidSymbol(symbol)
       THEN /\ lastEval' = [NoEval EXCEPT !.op = "orderbook-ignored"]
            /\ UNCHANGED <<marketData, orderBookData, signalData, alertTimes>>
       ELSE
         LET ob1 == [orderBookData EXCEPT ![symbol] = StoreBook(@, book)]
             r == CheckForSignalsAdvanced(symbol, marketData, klineData, ob1, signalData)
         IN  /\ orderBookData' = ob1
             /\ marketData' = r.md
             /\ signalData' = r.sd
             /\ alertTimes' = IF r.emitted THEN RecordAlert(alertTimes, symbol, now)
                              ELSE alertTimes
             /\ lastEval' = [NoEval EXCEPT
                               !.op = "orderbook",
                               !.bookBefore = <<orderBookData[symbol]>>,
                               !.emitted = IF r.emitted THEN 1 ELSE 0,
                               !.zero = IF r.ran /\ r.signals = <<>> THEN {symbol} ELSE {},
                               !.found = IF r.emitted THEN {symbol} ELSE {}]
    /\ updates' = updates + 1
    /\ UNCHANGED <<mdsKind, klineData, volumeData, scannerFilters, now>>

RECURSIVE RestLoop(_, _)
\* tickers.forEach(...) of fetchRestMarketData: a fresh entry per ticker
RestLoop(md, msg) ==
    IF msg = <<>> THEN md
    ELSE LET t == Head(msg)
         IN  RestLoop([md EXCEPT ![t.symbol] = MergeTicker(AbsentMD, t)], Tail(msg))

RECURSIVE SelectValid(_)
\* .filter(ticker => this.isValidSymbol(ticker.symbol)); the basic variant
\* keeps every symbol that ends in USDT
SelectValid(msg) ==
    IF msg = <<>> THEN <<>>
    ELSE IF mdsKind = "adv" /\ ~isValidSymbol(Head(msg).symbol)
         THEN SelectValid(Tail(msg))
         ELSE <<Head(msg)>> \o SelectValid(Tail(msg))

\* fetchRestMarketData(), with the response list msg (one entry per symbol)
FetchRestMarketData(msg) ==
    /\ marketData' = RestLoop(marketData, SelectValid(msg))
    /\ lastEval' = [NoEval EXCEPT !.op = "rest"]
    /\ updates' = updates + 1
    /\ UNCHANGED <<mdsKind, klineData, orderBookData, signalData, volumeData,
                   scannerFilters, now, alertTimes>>

\* this.scannerFilters = { ...this.scannerFilters, ...newFilters }
MergeFilters(filters, newFilters) ==
    [f \in DOMAIN filters \cup DOMAIN newFilters |->
        IF f \in DOMAIN newFilters THEN newFilters[f] ELSE filters[f]]

\* updateFilters(newFilters), as PUT /filters calls it with the request body
UpdateFilters(newFilters) ==
    /\ scannerFilters' = MergeFilters(scannerFilters, newFilters)
    /\ lastEval' = [NoEval EXCEPT !.op = "filters", !.patch = newFilters,
                                  !.filtersBefore = <<scannerFilters>>]
    /\ updates' = updates + 1
    /\ UNCHANGED <<mdsKind, marketData, klineData, orderBookData, signalData,
                   volumeData, now, alertTimes>>

\* Time passes.
Tick ==
    /\ now < MaxNow
    /\ now' = now + 1
    /\ lastEval' = NoEval
    /\ UNCHANGED <<mdsKind, marketData, klineData, orderBookData, signalData,
                   volumeData, scannerFilters, alertTimes, updates>>

(***************************************************************************)
(*                         SIGNAL SERVICE                                  *)
(***************************************************************************)
MaxTimers == 3             \* setInterval calls in one run of the model
MaxSignals == 3            \* signals generated in one run of the model
MaxHistory == 1            \* length the signal history is trimmed to (1000 in the code)

DefaultCoins == <<"BTCUSDT", "ETHUSDT">>

\* the coins argument of startSignalGeneration: null (here <<>>) or a list
CoinChoices == {<<>>, <<"BTCUSDT">>, <<"BTCUSDT", "DOGEUSDT">>}

\* this.settings.minConfidence, and the least value calculateConfidence
\* returns: Math.min(95, Math.max(50, ...))
MinConfidence == 10
Confidences == {50, 95}

\* The constructor
InitSig ==
    /\ isGenerating = FALSE
    /\ signalInterval = 0
    /\ liveTimers = {}
    /\ timersMade = 0
    /\ hasMarketData = FALSE
    /\ selectedCoins = DefaultCoins
    /\ listeners = 0
    /\ sigCalls = 0
    /\ sigLast = "none"
    /\ sigMade = 0
    /\ sigSuccess = FALSE
    /\ checking = {}
    /\ signals = {}
    /\ signalHistory = <<>>
    /\ idsMade = 0

\* clearInterval(handle): the runtime drops the timer; an unknown or null
\* handle is ignored
clearInterval(live, handle) == live \ {handle}

\* Mutant of ClearedByStart: the loop sets a new timer without clearing the old one.
ClearedByStartKeepsOld(live, handle) == live

\* The first statement of startSignalGenerationLoop:
\*   if (this.signalInterval) clearInterval(this.signalInterval)
ClearedByStart(live, handle) ==
    IF handle # 0 THEN clearInterval(live, handle) ELSE live

\* Mutant of ClearedByStop: stop forgets the handle but leaves the timer running.
ClearedByStopKeepsTimer(live, handle) == live

\* if (this.signalInterval) clearInterval(this.signalInterval) of stopSignalGeneration
ClearedByStop(live, handle) ==
    IF handle # 0 THEN clearInterval(live, handle) ELSE live

\* Mutant of generateSignal: without the isGenerating test of its first line.
generateSignalUnguarded(generating, coins, symbol, confidence) ==
    IF coins # <<>> /\ symbol \notin Range(coins) THEN 0
    ELSE IF confidence < MinConfidence THEN 0
    ELSE 1

\* generateSignal(marketData, signalTypes): the number of signals it stores in
\* this.signals and announces with 'newSignal' (0 where it returns null)
generateSignal(generating, coins, symbol, confidence) ==
    IF ~generating THEN 0
    ELSE IF coins # <<>> /\ symbol \notin Range(coins) THEN 0
    ELSE IF confidence < MinConfidence THEN 0
    ELSE 1

\* setMarketDataService(marketDataService)
SetMarketDataService ==
    /\ ~hasMarketData
    /\ hasMarketData' = TRUE
    /\ sigLast' = "inject"
    /\ sigCalls' = 0
    /\ sigMade' = 0
    /\ sigSuccess' = FALSE
    /\ UNCHANGED <<isGenerating, signalInterval, liveTimers, timersMade, selectedCoins,
                   listeners, checking, signals, signalHistory, idsMade>>

\* startSignalGeneration(coins), with startSignalGenerationLoop and
\* useRealMarketData, which it calls.  It returns { success: true, ... } on
\* both paths.
StartSignalGeneration(coins) ==
    /\ timersMade < MaxTimers
    /\ selectedCoins' = IF coins # <<>> THEN coins ELSE selectedCoins
    /\ IF hasMarketData
       THEN \* useRealMarketData: this.marketDataService.on('marketUpdate', ...);
            \* this.signalInterval = setInterval(..., 30000)
            /\ isGenerating' = TRUE
            /\ listeners' = listeners + 1
            /\ timersMade' = timersMade + 1
            /\ signalInterval' = timersMade + 1
            /\ liveTimers' = ClearedByStart(liveTimers, signalInterval)
                                \cup {timersMade + 1}
       ELSE \* no service: this.isGenerating = false; return
            /\ isGenerating' = FALSE
            /\ liveTimers' = ClearedByStart(liveTimers, signalInterval)
            /\ UNCHANGED <<signalInterval, timersMade, listeners>>
    /\ sigLast' = "start"
    /\ sigCalls' = 0
    /\ sigMade' = 0
    /\ sigSuccess' = TRUE
    /\ UNCHANGED <<hasMarketData, checking, signals, signalHistory, idsMade>>

\* stopSignalGeneration()
StopSignalGeneration ==
    /\ isGenerating' = FALSE
    /\ liveTimers' = ClearedByStop(liveTimers, signalInterval)
    /\ signalInterval' = 0
    /\ sigLast' = "stop"
    /\ sigCalls' = 0
    /\ sigMade' = 0
    /\ sigSuccess' = TRUE
    /\ UNCHANGED <<timersMade, hasMarketData, selectedCoins, listeners, checking, signals, signalHistory, idsMade>>

\* updateSelectedCoins(coins)
UpdateSelectedCoins(coins) ==
    /\ selectedCoins' = coins
    /\ sigLast' = "coins"
    /\ sigCalls' = 0
    /\ sigMade' = 0
    /\ sigSuccess' = FALSE
    /\ UNCHANGED <<isGenerating, signalInterval, liveTimers, timersMade,
                   hasMarketData, listeners, checking, signals, signalHistory, idsMade>>

\* A live interval timer fires its callback: it returns at once when
\* isGenerating is false, and otherwise waits for getMarketData().
IntervalFires(t) ==
    /\ t \in liveTimers
    /\ checking' = IF isGenerating THEN checking \cup {t} ELSE checking
    /\ sigLast' = "fire"
    /\ sigCalls' = 0
    /\ sigMade' = 0
    /\ sigSuccess' = FALSE
    /\ UNCHANGED <<isGenerating, signalInterval, liveTimers, timersMade,
                   hasMarketData, selectedCoins, listeners, signals, signalHistory,
                   idsMade>>

\* this.signals.set(signal.id, signal) for the signals one step generates.
\* An id is 'signal_' + Date.now() + '_' + nine random base-36 digits; the
\* model takes the ids to be distinct and numbers them.
Stored(made) ==
    /\ idsMade + made <= MaxSignals
    /\ sigMade' = made
    /\ signals' = signals \cup ((idsMade + 1)..(idsMade + made))
    /\ idsMade' = idsMade + made
    /\ UNCHANGED signalHistory

ClosedStatuses == {"tp1_hit", "tp2_hit", "tp3_hit", "tp4_hit", "sl_hit", "expired"}

\* this.signalHistory.slice(-MaxHistory) once the history is longer
KeepLast(hist) ==
    IF Len(hist) > MaxHistory THEN SubSeq(hist, Len(hist) - MaxHistory + 1, Len(hist))
    ELSE hist

\* Mutant of CloseSignal: the signal is pushed to the history and stays active.
CloseSignalKeepsActive(active, hist, signalId) ==
    [signals |-> active, signalHistory |-> KeepLast(Append(hist, signalId))]

\* this.signalHistory.push(signal); this.signals.delete(signalId); trim
CloseSignal(active, hist, signalId) ==
    [signals |-> active \ {signalId}, signalHistory |-> KeepLast(Append(hist, signalId))]

\* updateSignalStatus(signalId, status, hitPrice)
UpdateSignalStatus(signalId, status) ==
    /\ IF signalId \in signals /\ status \in ClosedStatuses
       THEN \E r \in {CloseSignal(signals, signalHistory, signalId)} :
               /\ signals' = r.signals
               /\ signalHistory' = r.signalHistory
       ELSE UNCHANGED <<signals, signalHistory>>
    /\ sigLast' = "status"
    /\ sigCalls' = 0
    /\ sigMade' = 0
    /\ sigSuccess' = FALSE
    /\ UNCHANGED <<isGenerating, signalInterval, liveTimers, timersMade,
                   hasMarketData, selectedCoins, listeners, checking, idsMade>>

\* clearAllSignals()
ClearAllSignals ==
    /\ signals' = {}
    /\ signalHistory' = <<>>
    /\ sigLast' = "clear"
    /\ sigCalls' = 0
    /\ sigMade' = 0
    /\ sigSuccess' = FALSE
    /\ UNCHANGED <<isGenerating, signalInterval, liveTimers, timersMade,
                   hasMarketData, selectedCoins, listeners, checking, idsMade>>

RECURSIVE PeriodicLoop(_, _)
\* for (const coinData of selectedCoinsData): one generateSignal call per coin
\* that is selected and has a price
PeriodicLoop(coins, confidence) ==
    IF coins = <<>> THEN [calls |-> 0, made |-> 0]
    ELSE LET rest == PeriodicLoop(Tail(coins), confidence)
             sel == selectedCoins = <<>> \/ Head(coins) \in Range(selectedCoins)
         IN  IF sel
             THEN [calls |-> rest.calls + 1,
                   made |-> rest.made + generateSignal(isGenerating, selectedCoins,
                                                       Head(coins), confidence)]
             ELSE rest

\* getMarketData() resolves and the callback of timer t goes on, whether or
\* not the timer was cleared meanwhile: allMarketData holds the priced coins.
IntervalResumes(t, allMarketData, confidence) ==
    /\ t \in checking
    /\ checking' = checking \ {t}
    /\ \E r \in {PeriodicLoop(allMarketData, confidence)} :
          /\ sigCalls' = r.calls
          /\ Stored(r.made)
    /\ sigLast' = "periodic"
    /\ sigSuccess' = FALSE
    /\ UNCHANGED <<isGenerating, signalInterval, liveTimers, timersMade,
                   hasMarketData, selectedCoins, listeners>>

\* The market data service emits 'marketUpdate' for a symbol: every listener
\* registered by useRealMarketData runs, and calls generateSignal unless
\* generation is off, the symbol is not selected or the price is falsy.
OnMarketUpdate(symbol, priced, confidence) ==
    /\ hasMarketData
    /\ LET calls == IF /\ isGenerating
                       /\ (selectedCoins = <<>> \/ symbol \in Range(selectedCoins))
                       /\ priced
                    THEN listeners ELSE 0
       IN  /\ sigCalls' = calls
           /\ Stored(calls * generateSignal(isGenerating, selectedCoins, symbol,
                                            confidence))
    /\ sigLast' = "update"
    /\ sigSuccess' = FALSE
    /\ UNCHANGED <<isGenerating, signalInterval, liveTimers, timersMade,
                   hasMarketData, selectedCoins, listeners, checking>>

PeriodicData == {<<>>, <<"BTCUSDT">>, <<"BTCUSDT", "DOGEUSDT">>}

NextSignal ==
    \/ SetMarketDataService /\ UNCHANGED <<hubVars, mdsVars, initVars, scanVars, detVars>>
    \/ \E coins \in CoinChoices : StartSignalGeneration(coins) /\ UNCHANGED <<hubVars, mdsVars, initVars, scanVars, detVars>>
    \/ StopSignalGeneration /\ UNCHANGED <<hubVars, mdsVars, initVars, scanVars, detVars>>
    \/ \E coins \in CoinChoices : UpdateSelectedCoins(coins) /\ UNCHANGED <<hubVars, mdsVars, initVars, scanVars, detVars>>
    \/ \E t \in 1..MaxTimers : IntervalFires(t) /\ UNCHANGED <<hubVars, mdsVars, initVars, scanVars, detVars>>
    \/ \E t \in 1..MaxTimers, d \in PeriodicData, c \in Confidences :
          IntervalResumes(t, d, c) /\ UNCHANGED <<hubVars, mdsVars, initVars, scanVars, detVars>>
    \/ \E symbol \in {"BTCUSDT", "DOGEUSDT"}, priced \in BOOLEAN, c \in Confidences :
          OnMarketUpdate(symbol, priced, c) /\ UNCHANGED <<hubVars, mdsVars, initVars, scanVars, detVars>>
    \/ \E id \in 1..MaxSignals, status \in {"tp1_hit", "sl_hit", "expired", "active"} :
          UpdateSignalStatus(id, status) /\ UNCHANGED <<hubVars, mdsVars, initVars, scanVars, detVars>>
    \/ ClearAllSignals /\ UNCHANGED <<hubVars, mdsVars, initVars, scanVars, detVars>>

(***************************************************************************)
(*              MARKET DATA SERVICE: initialize() and the feed             *)
(*                                                                         *)
(* initialize() is an async function: each await is a step.  The outcome   *)
(* of the two remote calls is an input.  Both variants of the service have *)
(* the same initialize().                                                  *)
(***************************************************************************)
InitStartup ==
    /\ initPc = "idle"
    /\ isInitialized = FALSE
    /\ initResult = "none"
    /\ testOk = "unknown"
    /\ fetchOk = "unknown"
    /\ feedState = "none"
    /\ restFallbackInterval = FALSE

\* server.listen callback: await marketDataService.initialize()
Initialize ==
    /\ initPc = "idle"
    /\ initPc' = "testing"
    /\ initResult' = "pending"
    /\ UNCHANGED <<isInitialized, testOk, fetchOk, feedState,
                   restFallbackInterval>>

\* startRestFallback() only arms the 5-second timer; it cannot throw, so the
\* statement after it always runs: this.isInitialized = true, and the promise
\* resolves.  It is reached from the try block and from the catch block.
StartRestFallbackAndFinish ==
    /\ restFallbackInterval' = TRUE
    /\ isInitialized' = TRUE
    /\ initResult' = "resolved"
    /\ initPc' = "done"

\* await this.testRestConnection(): a failure is rethrown into the catch of
\* initialize(), which switches to REST-only mode; a success creates wsClient
\* and registers its handlers.
TestRestConnection(ok) ==
    /\ initPc = "testing"
    /\ testOk' = IF ok THEN "ok" ELSE "failed"
    /\ IF ok
       THEN /\ initPc' = "fetching"
            /\ feedState' = "idle"
            /\ UNCHANGED <<isInitialized, initResult, restFallbackInterval>>
       ELSE /\ StartRestFallbackAndFinish
            /\ UNCHANGED feedState
    /\ UNCHANGED fetchOk

\* await this.fetchInitialData(): getInstrumentsInfo and subscribeToSymbols.
\* Both catch their own errors, so initialize() goes on either way; the first
\* subscribeV5 opens the connection.
FetchInitialData(ok) ==
    /\ initPc = "fetching"
    /\ fetchOk' = IF ok THEN "ok" ELSE "failed"
    /\ feedState' = IF ok /\ feedState = "idle" THEN "open" ELSE feedState
    /\ initPc' = "fallback"
    /\ UNCHANGED <<isInitialized, initResult, testOk, restFallbackInterval>>

\* await this.startRestFallback(); this.isInitialized = true
FinishInitialize ==
    /\ initPc = "fallback"
    /\ StartRestFallbackAndFinish
    /\ UNCHANGED <<testOk, fetchOk, feedState>>

\* wsClient.on('close', ...): the handler writes a log line and nothing else.
WsClose ==
    /\ feedState = "open"
    /\ feedState' = "closed"
    /\ UNCHANGED <<initPc, isInitialized, initResult, testOk, fetchOk,
                   restFallbackInterval>>

(***************************************************************************)
(*                         Feed inputs                                     *)
(***************************************************************************)
Candle(ts, close, volume) == [timestamp |-> ts, close |-> close, volume |-> volume]

Ticker(symbol, lastPrice, pcnt, volume, turnover) ==
    [symbol |-> symbol, lastPrice |-> lastPrice, price24hPcnt |-> pcnt,
     volume24h |-> volume, turnover24h |-> turnover]

\* a full snapshot of a calm market
Quiet(s) == Ticker(s, Field(100), Field(0), Field(1), Field(5000))
\* a full snapshot with a 5% move on heavy volume
Heavy(s) == Ticker(s, Field(100), Field(500), Field(6000), Field(20000))
\* a delta message: only the price changed
Delta(s) == Ticker(s, Field(101), Missing, Missing, Missing)
\* a snapshot whose turnover is not a number
Garbled(s) == Ticker(s, Field(102), Field(0), Field(1), Malformed)

TickerMessages ==
    {<<Quiet("BTCUSDT")>>, <<Heavy("BTCUSDT")>>, <<Delta("BTCUSDT")>>,
     <<Garbled("BTCUSDT")>>, <<Quiet("BTCUPUSDT")>>,
     <<Quiet("BTCUSDT"), Heavy("BTCUSDT")>>,
     <<Heavy("BTCUSDT"), Quiet("BTCUSDT")>>,
     <<Quiet("BTCUPUSDT"), Heavy("BTCUSDT")>>,
     <<Quiet("BTCUSDT"), Heavy("ETHUSDT")>>}

RestMessages ==
    {<<Quiet("BTCUSDT")>>, <<Heavy("BTCUSDT")>>, <<Garbled("BTCUSDT")>>,
     <<Quiet("BTCUPUSDT"), Quiet("BTCUSDT")>>}

MarketCandles == {Candle(1, 100, 10), Candle(2, 100, 10), Candle(2, 105, 30)}

Books == {[bids |-> <<10>>, asks |-> <<10>>],
          [bids |-> <<30>>, asks |-> <<10>>]}

NextMarket ==
    \/ /\ updates < MaxUpdates
       /\ \E msg \in TickerMessages :
             \E draws \in [1..Len(msg) -> BOOLEAN] : HandleTickerUpdate(msg, draws)
       /\ hubIdle
    \/ /\ updates < MaxUpdates
       /\ \E s \in FeedSymbols, i \in Intervals, k \in MarketCandles :
             HandleKlineUpdate(s, i, k)
       /\ hubIdle
    \/ /\ updates < MaxUpdates
       /\ \E s \in FeedSymbols, b \in Books : HandleOrderBookUpdate(s, b)
       /\ hubIdle
    \/ /\ updates < MaxUpdates
       /\ \E msg \in RestMessages : FetchRestMarketData(msg)
       /\ hubIdle
    \/ Tick /\ hubIdle

(***************************************************************************)
(*   Order books and configuration: REST snapshots, order-book updates     *)
(*   and filter updates                                                    *)
(***************************************************************************)
MaxConfigSteps == 3        \* messages and requests handled in one run of the model

\* order-book messages: balanced; bid-heavy; bid-heavy with a bid wall; a
\* message without asks (data.a undefined)
ConfigBooks ==
    {[bids |-> <<10>>, asks |-> <<10>>],
     [bids |-> <<30>>, asks |-> <<20>>],
     [bids |-> <<30, 10>>, asks |-> <<15, 15>>],
     [bids |-> <<10>>, asks |-> <<>>]}

\* request bodies of PUT /filters (thresholds in thousandths)
FilterPatches ==
    {[spoofDetection |-> FALSE],
     [whaleAlerts |-> FALSE],
     [priceBreakout |-> 1005],
     [priceBreakout |-> 1000],
     [volumeSpike |-> 500, liquidityImbalance |-> FALSE]}

NextConfig ==
    \/ /\ updates < MaxConfigSteps
       /\ \E msg \in RestMessages : FetchRestMarketData(msg)
       /\ hubIdle
    \/ /\ updates < MaxConfigSteps
       /\ \E b \in ConfigBooks : HandleOrderBookUpdate("BTCUSDT", b)
       /\ hubIdle
    \/ /\ updates < MaxConfigSteps
       /\ \E newFilters \in FilterPatches : UpdateFilters(newFilters)
       /\ hubIdle

\* The 5-second REST fallback timer fires: fetchRestMarketData()
\* (the timer goes on for as long as the process lives, so this step is not
\* counted against the number of feed messages of a run)
RestFallbackFires(msg) ==
    /\ restFallbackInterval
    /\ marketData' = RestLoop(marketData, SelectValid(msg))
    /\ lastEval' = [NoEval EXCEPT !.op = "rest"]
    /\ UNCHANGED <<mdsKind, klineData, orderBookData, signalData, volumeData,
                   scannerFilters, now, alertTimes, updates>>
    /\ UNCHANGED <<hubVars, sigVars, initVars, scanVars, detVars>>

\* wsClient.on('update', ...): the feed delivers only while it is connected
FeedDelivers(k) ==
    /\ feedState = "open"
    /\ updates < MaxUpdates
    /\ HandleKlineUpdate("BTCUSDT", "1m", k)
    /\ hubIdle

startupIdle == UNCHANGED <<hubVars, mdsVars, sigVars, scanVars, detVars>>

NextStartup ==
    \/ Initialize /\ startupIdle
    \/ \E ok \in BOOLEAN : TestRestConnection(ok) /\ startupIdle
    \/ \E ok \in BOOLEAN : FetchInitialData(ok) /\ startupIdle
    \/ FinishInitialize /\ startupIdle
    \/ WsClose /\ startupIdle
    \/ \E msg \in RestMessages : RestFallbackFires(msg)
    \/ \E k \in MarketCandles : FeedDelivers(k)

(***************************************************************************)
(*                 CONSOLE SCANNER (marketScanner.js)                      *)
(*                                                                         *)
(* One process, one thread: every 'update' event of wsClient runs          *)
(* processWebSocketData once per registered listener, and each run ends    *)
(* with checkForAlerts(symbol).                                            *)
(***************************************************************************)
ScanSymbols == {"BTCUSDT", "ETHUSDT"}
MaxScanTicks == 2          \* clock ticks of the scanner in one run of the model
MaxHandlers == 2           \* calls of initializeWebSockets in one run of the model
MaxReconnects == 3         \* reconnect timers pending at one time in the model
MinAnalysisCandles == 10
ImbalanceThreshold == 1500 \* detectOrderBookImbalance(orderBook, threshold = 1.5)
WallThreshold == 2000      \* detectLiquidityWalls(orderBook, threshold = 2.0)

\* the entry processWebSocketData creates for a symbol it has not seen
FreshScan ==
    [present |-> TRUE, hasKline |-> FALSE, klineData |-> <<>>, klineFrom |-> "none",
     volumeSpike |-> FALSE, priceBreakout |-> FALSE,
     orderBookImbalance |-> FALSE, liquidityWalls |-> FALSE, lastAlertTime |-> 0]

AbsentScan == [FreshScan EXCEPT !.present = FALSE]

\* Date.now() is far beyond one window after the epoch when the scanner starts
InitScan ==
    /\ scTimeframe = "1m"
    /\ scFilters = [volumeSpikeThreshold |-> 1050, priceBreakoutThreshold |-> 1002,
                    spoofDetectionEnabled |-> TRUE, liquidityWallsEnabled |-> TRUE]
    /\ scData = [s \in ScanSymbols |-> AbsentScan]
    /\ scHandlers = 1
    /\ scNow = MinAlertInterval
    /\ scAlerts = [s \in ScanSymbols |-> <<>>]
    /\ scOpen = TRUE
    /\ scReconnects = 0
    /\ scRegistered = {"1m"}
    /\ scTopics = {"1m"}

\* if (now - data.lastAlertTime < 60000) return;
RateLimitedNever(t, lastAlertTime) == FALSE

RateLimited(t, lastAlertTime) == t - lastAlertTime < MinAlertInterval

ShouldAlert(d, filters) ==
    \/ filters.volumeSpikeThreshold > 0 /\ d.volumeSpike
    \/ d.priceBreakout
    \/ filters.spoofDetectionEnabled /\ d.orderBookImbalance
    \/ filters.liquidityWallsEnabled /\ d.liquidityWalls

\* Mutant of CheckForAlerts: every evaluation that is not rate-limited stamps
\* lastAlertTime, whether or not it found anything.
CheckForAlertsStamping(d, filters, t) ==
    IF ~d.hasKline THEN [d |-> d, alert |-> FALSE]
    ELSE IF RateLimited(t, d.lastAlertTime) THEN [d |-> d, alert |-> FALSE]
    ELSE [d |-> [d EXCEPT !.lastAlertTime = t], alert |-> ShouldAlert(d, filters)]

\* checkForAlerts(symbol): the entry afterwards and whether an alert was written
CheckForAlerts(d, filters, t) ==
    IF ~d.hasKline THEN [d |-> d, alert |-> FALSE]
    ELSE IF RateLimited(t, d.lastAlertTime) THEN [d |-> d, alert |-> FALSE]
    ELSE IF ShouldAlert(d, filters)
         THEN [d |-> [d EXCEPT !.lastAlertTime = t], alert |-> TRUE]
         ELSE [d |-> d, alert |-> FALSE]

\* analyzeVolume(...).isVolumeSignal: false below ten candles; from ten candles on
\* it is the vote of four analyses, taken here as an input of the message
IsVolumeSignal(msg) == Len(msg.candles) >= MinAnalysisCandles /\ msg.spike

\* processWebSocketData(data) up to the call of checkForAlerts
StoreScan(d0, msg, filters) ==
    LET d == IF d0.present THEN d0 ELSE FreshScan
    IN  IF msg.kind = "kline"
        THEN [d EXCEPT
                !.hasKline = TRUE,
                !.klineData = msg.candles,
                !.klineFrom = msg.interval,
                !.volumeSpike = IF filters.volumeSpikeThreshold > 0
                                THEN IsVolumeSignal(msg) ELSE @,
                !.priceBreakout =
                    detectPriceBreakout(msg.candles,
                                        filters.priceBreakoutThreshold).isBreakout]
        ELSE [d EXCEPT
                !.orderBookImbalance =
                    IF filters.spoofDetectionEnabled
                    THEN detectOrderBookImbalance(msg.book, ImbalanceThreshold).isImbalanced
                    ELSE @,
                !.liquidityWalls =
                    IF filters.liquidityWallsEnabled
                    THEN detectLiquidityWalls(msg.book, WallThreshold).hasWalls
                    ELSE @]

ProcessWebSocketData(d0, msg, filters, t) ==
    CheckForAlerts(StoreScan(d0, msg, filters), filters, t)

\* one 'update' event: every registered listener runs processWebSocketData,
\* one after the other, within the same tick
RECURSIVE RunListeners(_, _, _, _, _)
RunListeners(n, acc, msg, filters, t) ==
    IF n = 0 THEN acc
    ELSE LET r == ProcessWebSocketData(acc.d, msg, filters, t)
         IN  RunListeners(n - 1,
                          [d |-> r.d,
                           times |-> IF r.alert THEN Append(acc.times, t) ELSE acc.times],
                          msg, filters, t)

RECURSIVE RecordAlerts(_, _, _)
RecordAlerts(al, symbol, times) ==
    IF times = <<>> THEN al
    ELSE RecordAlerts(RecordAlert(al, symbol, Head(times)), symbol, Tail(times))

ScanUpdate(symbol, msg) ==
    /\ scOpen
    /\ msg.kind = "kline" => msg.interval \in scTopics
    /\ \E r \in {RunListeners(scHandlers, [d |-> scData[symbol], times |-> <<>>],
                           msg, scFilters, scNow)} :
        /\ scData' = [scData EXCEPT ![symbol] = r.d]
        /\ scAlerts' = RecordAlerts(scAlerts, symbol, r.times)
        /\ UNCHANGED <<scTimeframe, scFilters, scHandlers, scNow,
                       scOpen, scReconnects, scRegistered, scTopics>>

\* scannerState.setTimeframe(newTimeframe): a change of timeframe calls
\* initializeWebSockets again, which registers one more listener for each of
\* 'open', 'update', 'error' and 'close'.  Nothing is subscribed or
\* unsubscribed at that moment: the topics are subscribed by the 'open'
\* listeners.
SetTimeframe(newTimeframe) ==
    /\ newTimeframe # scTimeframe => scHandlers < MaxHandlers
    /\ scTimeframe' = newTimeframe
    /\ scHandlers' = IF newTimeframe # scTimeframe THEN scHandlers + 1 ELSE scHandlers
    /\ scRegistered' = IF newTimeframe # scTimeframe
                       THEN scRegistered \cup {newTimeframe} ELSE scRegistered
    /\ UNCHANGED <<scFilters, scData, scNow, scAlerts, scOpen, scReconnects, scTopics>>

\* wsClient emits 'close': every 'close' listener sets a timer of 5 seconds
ScanClose ==
    /\ scOpen
    /\ scReconnects + scHandlers <= MaxReconnects
    /\ scOpen' = FALSE
    /\ scReconnects' = scReconnects + scHandlers
    /\ UNCHANGED <<scTimeframe, scFilters, scData, scHandlers, scNow, scAlerts,
                   scRegistered, scTopics>>

\* One reconnect timer fires: wsClient.connect().  When that opens the
\* connection, every 'open' listener subscribes the topics of its timeframe.
ReconnectFires ==
    /\ scReconnects > 0
    /\ scReconnects' = scReconnects - 1
    /\ scOpen' = TRUE
    /\ scTopics' = IF scOpen THEN scTopics ELSE scRegistered
    /\ UNCHANGED <<scTimeframe, scFilters, scData, scHandlers, scNow, scAlerts,
                   scRegistered>>

\* processCommand(cmd) for the filter commands; a patch of <<>> is a rejected one
ScanCommands ==
    {[spoofDetectionEnabled |-> FALSE], [spoofDetectionEnabled |-> TRUE],
     [priceBreakoutThreshold |-> 1100]}

ProcessCommand(patch) ==
    /\ scFilters' = MergeFilters(scFilters, patch)
    /\ UNCHANGED <<scTimeframe, scData, scHandlers, scNow, scAlerts,
                   scOpen, scReconnects, scRegistered, scTopics>>

ScanTick ==
    /\ scNow < MinAlertInterval + MaxScanTicks
    /\ scNow' = scNow + 1
    /\ UNCHANGED <<scTimeframe, scFilters, scData, scHandlers, scAlerts,
                   scOpen, scReconnects, scRegistered, scTopics>>

ScanKlines ==
    {<<Candle(2, 105, 10), Candle(1, 100, 10)>>,
     <<Candle(2, 100, 10), Candle(1, 100, 10)>>,
     [i \in 1..MinAnalysisCandles |-> Candle(MinAnalysisCandles + 1 - i, 100, 10)]}

ScanMessages ==
    {[kind |-> "kline", interval |-> i, candles |-> c, spike |-> b,
      book |-> [bids |-> <<>>, asks |-> <<>>]] :
        i \in {"1m", "5m"}, c \in ScanKlines, b \in BOOLEAN}
    \cup {[kind |-> "orderbook", interval |-> "none", candles |-> <<>>, spike |-> FALSE,
           book |-> b] :
             b \in Books}

scanIdle == UNCHANGED <<hubVars, mdsVars, sigVars, initVars, detVars>>

NextScan ==
    \/ \E s \in ScanSymbols, msg \in ScanMessages : ScanUpdate(s, msg) /\ scanIdle
    \/ \E tf \in {"1m", "5m"} : SetTimeframe(tf) /\ scanIdle
    \/ \E patch \in ScanCommands : ProcessCommand(patch) /\ scanIdle
    \/ ScanTick /\ scanIdle

\* the scanner's connection: kline updates, timeframe switches, closes and
\* reconnects
ConnMessages ==
    {[kind |-> "kline", interval |-> i, candles |-> <<Candle(2, c, 10), Candle(1, 100, 10)>>,
      spike |-> FALSE, book |-> [bids |-> <<>>, asks |-> <<>>]] :
        i \in {"1m", "5m"}, c \in {100, 105}}

NextScanConn ==
    \/ \E s \in ScanSymbols, msg \in ConnMessages : ScanUpdate(s, msg) /\ scanIdle
    \/ \E tf \in {"1m", "5m"} : SetTimeframe(tf) /\ scanIdle
    \/ ScanClose /\ scanIdle
    \/ ReconnectFires /\ scanIdle

(***************************************************************************)
(*                DETECTORS APPLIED TO CHOSEN INPUTS                       *)
(*                                                                         *)
(* The detectors are pure functions of their arguments.  Each step calls   *)
(* one of them on arguments drawn from a small set and keeps the           *)
(* arguments and the result.                                               *)
(***************************************************************************)
(***************************************************************************)
(* PnLService (src/unnamed/part_011), built once by src/routes/pnlRoutes.js *)
(***************************************************************************)
MaxTrades == 2

NoFile == [state |-> "missing", trades |-> <<>>]
\* trades.json as the process can find it at start: absent, readable with no
\* trade or with the trade 0 of an earlier run, or not parseable
PnlFiles ==
    {NoFile,
     [state |-> "valid", trades |-> <<>>],
     [state |-> "valid", trades |-> <<0>>],
     [state |-> "corrupt", trades |-> <<>>]}

InitPnl ==
    /\ pnlLoad = "unbuilt"
    /\ trades = <<>>
    /\ tradeFile = NoFile
    /\ dataRead = NoFile
    /\ pnlSaves = {}
    /\ returnedTrades = {}
    /\ deletedTrades = {}
    /\ tradeIds = 0

pnlIdle ==
    UNCHANGED <<hubVars, mdsVars, sigVars, initVars, scanVars, probe, returned, whVars>>

\* saveTrades(): JSON.stringify(this.trades) is evaluated at the call, and
\* the write completes later
saveTrades(saves, op, id, list) ==
    saves \cup {[op |-> op, id |-> id, snapshot |-> list]}

\* new PnLService(): this.trades = [] and initialize() runs, not awaited, up
\* to the await of fs.mkdir in loadTrades.  file is what is on disk.
Construct(file) ==
    /\ pnlLoad = "unbuilt"
    /\ pnlLoad' = "mkdir"
    /\ trades' = <<>>
    /\ tradeFile' = file
    /\ UNCHANGED <<dataRead, pnlSaves, returnedTrades, deletedTrades, tradeIds>>
    /\ pnlIdle

\* fs.mkdir resolves and loadTrades calls fs.readFile
LoadMkdir ==
    /\ pnlLoad = "mkdir"
    /\ pnlLoad' = "reading"
    /\ UNCHANGED <<trades, tradeFile, dataRead, pnlSaves, returnedTrades,
                   deletedTrades, tradeIds>>
    /\ pnlIdle

\* the read completes with the file as it is on disk at that moment
LoadReads ==
    /\ pnlLoad = "reading"
    /\ pnlLoad' = "read"
    /\ dataRead' = tradeFile
    /\ UNCHANGED <<trades, tradeFile, pnlSaves, returnedTrades, deletedTrades,
                   tradeIds>>
    /\ pnlIdle

\* loadTrades resumes after the await of readFile: this.trades is assigned
\* the parsed array; on ENOENT it is assigned [] and saved; a text that does
\* not parse is rethrown to initialize, which assigns [].
LoadAssigns ==
    /\ pnlLoad = "read"
    /\ IF dataRead.state = "valid"
       THEN /\ trades' = dataRead.trades
            /\ pnlLoad' = "done"
            /\ UNCHANGED pnlSaves
       ELSE IF dataRead.state = "missing"
       THEN /\ trades' = <<>>
            /\ pnlLoad' = "saving"
            /\ pnlSaves' = saveTrades(pnlSaves, "load", 0, <<>>)
       ELSE /\ trades' = <<>>
            /\ pnlLoad' = "done"
            /\ UNCHANGED pnlSaves
    /\ UNCHANGED <<tradeFile, dataRead, returnedTrades, deletedTrades, tradeIds>>
    /\ pnlIdle

\* addTrade(tradeData) up to its await: the trade is built under a new id,
\* pushed to this.trades and the save is started
AddTrade ==
    /\ pnlLoad # "unbuilt"
    /\ tradeIds < MaxTrades
    /\ tradeIds' = tradeIds + 1
    /\ trades' = Append(trades, tradeIds + 1)
    /\ pnlSaves' = saveTrades(pnlSaves, "add", tradeIds + 1,
                              Append(trades, tradeIds + 1))
    /\ UNCHANGED <<pnlLoad, tradeFile, dataRead, returnedTrades, deletedTrades>>
    /\ pnlIdle

\* deleteTrade(tradeId) up to its await; an id that findIndex does not find
\* throws and changes nothing
DeleteTrade(tradeId) ==
    /\ pnlLoad # "unbuilt"
    /\ tradeId \in Range(trades)
    /\ LET spliced == SelectSeq(trades, LAMBDA t : t # tradeId)
       IN  /\ trades' = spliced
           /\ pnlSaves' = saveTrades(pnlSaves, "delete", tradeId, spliced)
    /\ deletedTrades' = deletedTrades \cup {tradeId}
    /\ UNCHANGED <<pnlLoad, tradeFile, dataRead, returnedTrades, tradeIds>>
    /\ pnlIdle

\* a write of saveTrades completes and its caller resumes: addTrade returns
\* the trade, loadTrades and with it initialize finish
SaveCompletes(save) ==
    /\ save \in pnlSaves
    /\ pnlSaves' = pnlSaves \ {save}
    /\ tradeFile' = [state |-> "valid", trades |-> save.snapshot]
    /\ returnedTrades' =
           IF save.op = "add" THEN returnedTrades \cup {save.id} ELSE returnedTrades
    /\ pnlLoad' = IF save.op = "load" THEN "done" ELSE pnlLoad
    /\ UNCHANGED <<trades, dataRead, deletedTrades, tradeIds>>
    /\ pnlIdle

NextPnl ==
    \/ \E file \in PnlFiles : Construct(file)
    \/ LoadMkdir
    \/ LoadReads
    \/ LoadAssigns
    \/ AddTrade
    \/ \E tradeId \in 0..MaxTrades : DeleteTrade(tradeId)
    \/ \E save \in pnlSaves : SaveCompletes(save)

(***************************************************************************)
(* Webhook routes (src/unnamed/part_003)                                   *)
(***************************************************************************)
\* MAX_HISTORY is 1000 in the source; the model keeps the newest three entries
MAX_HISTORY == 3
DefaultRetries == 3
WebhookUrls == {"", "hookA", "hookB"}      \* "" is a body without url
RetriesInputs == {0, 1, DefaultRetries}

InitWebhook ==
    /\ whPc = "idle"
    /\ whUrl = ""
    /\ whRetries = DefaultRetries
    /\ whAttempt = 1
    /\ whPosts = 0
    /\ whFails = 0
    /\ whDelays = <<>>
    /\ whResponse = "none"
    /\ webhookHistory = <<>>

\* addToHistory(entry): unshift, then slice(0, MAX_HISTORY)
addToHistory(history, entry) ==
    LET unshifted == <<entry>> \o history
    IN  IF Len(unshifted) > MAX_HISTORY
        THEN SubSeq(unshifted, 1, MAX_HISTORY)
        ELSE unshifted

\* Math.min(1000 * Math.pow(2, attempt - 1), 5000)
Backoff(attempt) ==
    IF 1000 * 2^(attempt - 1) < 5000 THEN 1000 * 2^(attempt - 1) ELSE 5000

\* the answer after the retry loop.  lastError stays null when no POST was
\* rejected; reading lastError.message then throws a TypeError, which the
\* outer catch answers with 'Webhook request failed'.
AfterLoop(success, lastErrorSet) ==
    IF success THEN "sent"
    ELSE IF lastErrorSet THEN "failed_after_all_retries"
    ELSE "request_failed"

webhookIdle ==
    UNCHANGED <<hubVars, mdsVars, sigVars, initVars, scanVars, probe, returned, pnlVars>>

\* POST /send up to its first await: the body is destructured and validated,
\* and the loop starts with attempt = 1 when 1 <= retries.
Send(url, hasData, retries) ==
    /\ whPc = "idle"
    /\ whUrl' = url
    /\ whRetries' = retries
    /\ whAttempt' = 1
    /\ whPosts' = 0
    /\ whFails' = 0
    /\ whDelays' = <<>>
    /\ IF url = ""
       THEN whPc' = "idle" /\ whResponse' = "url_required"
       ELSE IF ~hasData
       THEN whPc' = "idle" /\ whResponse' = "data_required"
       ELSE IF 1 <= retries
       THEN whPc' = "posting" /\ whResponse' = "none"
       ELSE whPc' = "idle" /\ whResponse' = AfterLoop(FALSE, FALSE)
    /\ UNCHANGED webhookHistory
    /\ webhookIdle

\* the awaited axios.post settles.  Fulfilled: the success entry is recorded,
\* success = true, break, and the request is answered.  Rejected: the catch
\* block sets lastError and evaluates Date.now() - startTime; startTime is a
\* const of the try block and is not in scope in the catch block, so the
\* expression throws a ReferenceError that leaves the loop for the outer
\* catch, which answers 'Webhook request failed': no history entry is
\* written and the wait of Backoff(attempt) ms is not reached.
PostSettles(fulfilled) ==
    /\ whPc = "posting"
    /\ whPosts' = whPosts + 1
    /\ whPc' = "idle"
    /\ IF fulfilled
       THEN /\ webhookHistory' =
                   addToHistory(webhookHistory,
                                [url |-> whUrl, status |-> "success",
                                 attempt |-> whAttempt])
            /\ whResponse' = AfterLoop(TRUE, FALSE)
            /\ UNCHANGED whFails
       ELSE /\ whFails' = whFails + 1
            /\ whResponse' = "request_failed"
            /\ UNCHANGED webhookHistory
    /\ UNCHANGED <<whUrl, whRetries, whAttempt, whDelays>>
    /\ webhookIdle

\* DELETE /history without olderThan
ClearWebhookHistory ==
    /\ webhookHistory # <<>>
    /\ webhookHistory' = <<>>
    /\ UNCHANGED <<whPc, whUrl, whRetries, whAttempt, whPosts, whFails, whDelays,
                   whResponse>>
    /\ webhookIdle

NextWebhook ==
    \/ \E url \in WebhookUrls, hasData \in BOOLEAN, retries \in RetriesInputs :
          Send(url, hasData, retries)
    \/ \E fulfilled \in BOOLEAN : PostSettles(fulfilled)
    \/ ClearWebhookHistory

NoProbe == [fn |-> "none"]

\* JavaScript arrays are references: the caller's array is the stored one
\* (shared) or an array of its own; atReturn is its content at the return.
NoReturned == [held |-> FALSE, key |-> <<"BTCUSDT", "1m">>, shared |-> FALSE,
               atReturn |-> <<>>]

InitDetect ==
    /\ probe = NoProbe
    /\ returned = NoReturned
    /\ InitWebhook
    /\ InitPnl

\* getKlineData(symbol, interval): this.klineData.get(klineKey) || [].  The
\* map holds an array for a key once a kline of it was stored, and that array
\* is what is returned; for a key without one the caller gets a new array.
GetKlineData(symbol, interval) ==
    LET klineKey == <<symbol, interval>>
    IN  /\ returned' = [held |-> TRUE, key |-> klineKey,
                        shared |-> klineData[klineKey] # <<>>,
                        atReturn |-> klineData[klineKey]]
        /\ UNCHANGED <<hubVars, mdsVars, sigVars, initVars, scanVars, probe, whVars, pnlVars>>

\* what the caller reads from its array now
ReturnedView ==
    IF returned.shared THEN klineData[returned.key] ELSE returned.atReturn

ProbeCloses == {90, 100, 101, 110, 905, 1000}
ProbeThresholds == {1010, 1100}

\* detectPriceBreakout(candles, threshold) of the extended service and of the
\* console scanner (newest candle first), and detectPriceBreakout(marketData)
\* of the basic service (stored series, newest candle last)
ProbePriceBreakout(cur, prev, threshold) ==
    LET candles == <<Candle(2, cur, 10), Candle(1, prev, 10)>>
    IN  probe' = [fn |-> "detectPriceBreakout", cur |-> cur, prev |-> prev,
                  threshold |-> threshold,
                  direction |-> detectPriceBreakout(candles, threshold).direction,
                  stored |-> StoredBreakoutDirection(Reverse(candles), threshold)]

\* marketScanner.js detectVolumeSpike(candles, threshold): no result below ten
\* candles; a mean of 0 needs no case of its own (current > 0 * threshold)
detectVolumeSpikeScanner(candles, threshold) ==
    IF Len(candles) < MinAnalysisCandles THEN FALSE
    ELSE candles[1].volume * (Len(candles) - 1) * 1000
           > SumVolume(Tail(candles)) * threshold

\* candles, newest first, with the given volumes
WithVolumes(volumes) ==
    [i \in 1..Len(volumes) |-> Candle(Len(volumes) + 1 - i, 100, volumes[i])]

Flat(n, v) == [i \in 1..n |-> v]

ProbeVolumes ==
    {<<>>, <<5>>, <<60, 50>>, <<0, 0>>, <<3, 0, 0>>,
     <<100, 50, 50, 50, 50>>, <<55, 50, 50, 50, 50>>, <<60, 50, 50, 50, 50>>,
     <<130>> \o Flat(MinAnalysisCandles - 1, 100),
     <<100>> \o Flat(MinAnalysisCandles - 1, 100),
     <<1>> \o Flat(MinAnalysisCandles - 1, 0)}

ProbeSpikeThresholds == {1050, 1200}

ProbeVolumeSpike(volumes, threshold) ==
    probe' = [fn |-> "detectVolumeSpike", volumes |-> volumes, threshold |-> threshold,
              isSpike |-> detectVolumeSpike(WithVolumes(volumes), threshold),
              scanner |-> detectVolumeSpikeScanner(WithVolumes(volumes), threshold)]

\* direction: marketData.change24h > 0 ? 'bullish' : 'bearish'
WhaleDirection(md) == IF OrZero(md.change24h) > 0 THEN "bullish" ELSE "bearish"

ProbeTurnovers == {6000, 10000, 20000}
ProbeChanges == {-50, 0, 10, 50}        \* 24h change in hundredths of a percent
ProbeWhaleVolumes == {<<>>, <<10, 10>>, <<20, 10>>}

\* detectWhaleActivityAdvanced(marketData, candles)
ProbeWhaleActivity(turnover, change, volumes) ==
    LET md == [AbsentMD EXCEPT !.present = TRUE, !.price = Num(100),
                               !.turnover24h = Num(turnover),
                               !.change24h = Num(change), !.volume24h = Num(1)]
        found == detectWhaleActivityAdvanced(md, WithVolumes(volumes))
    IN  probe' = [fn |-> "detectWhaleActivityAdvanced", turnover |-> turnover,
                  change |-> change, volumes |-> volumes, type |-> found,
                  direction |-> IF found = "large_volume_movement"
                                THEN WhaleDirection(md) ELSE "null"]

\* analyzeVolume(candles, options): the vote over the four analyses.  What each
\* analysis finds on the candles is an argument here (spikes: the analyses that
\* report a spike when run); enabled: the analyses switched on in options.
\* signalStrength is signalCount / 4 and is kept in quarters; below ten candles
\* the result has no signalStrength field.
Methods == {"volatilityAdjusted", "weightedAverage", "acceleration", "timeAdjusted"}
MinAccelerationCandles == 5

analyzeVolumeCountingDisabled(n, enabled, spikes) ==
    IF n < MinAnalysisCandles
    THEN [isVolumeSignal |-> FALSE, hasStrength |-> FALSE, signalCount |-> 0]
    ELSE [isVolumeSignal |-> Cardinality(spikes) >= 2, hasStrength |-> TRUE,
          signalCount |-> Cardinality(spikes)]

analyzeVolume(n, enabled, spikes) ==
    IF n < MinAnalysisCandles
    THEN [isVolumeSignal |-> FALSE, hasStrength |-> FALSE, signalCount |-> 0]
    ELSE LET signalCount == Cardinality(enabled \cap spikes)
         IN  [isVolumeSignal |-> signalCount >= 2, hasStrength |-> TRUE,
              signalCount |-> signalCount]

\* what the analyses can report on n candles: the three spike analyses need
\* ten candles, the acceleration analysis five
PossibleSpikes(n) ==
    IF n >= MinAnalysisCandles THEN SUBSET Methods
    ELSE IF n >= MinAccelerationCandles THEN SUBSET {"acceleration"}
    ELSE {{}}

ProbeLengths == {MinAccelerationCandles - 1, MinAnalysisCandles - 1, MinAnalysisCandles}

ProbeAnalyzeVolume(n, enabled, spikes) ==
    probe' = [fn |-> "analyzeVolume", n |-> n, enabled |-> enabled, spikes |-> spikes,
              result |-> analyzeVolume(n, enabled, spikes)]

\* Prices are counted in units of 0.0001, the riskRewardRatio settings in
\* thousandths: tp1 0.02, tp2 0.04, tp3 0.06, tp4 0.08, sl 0.035.
RiskReward == [tp1 |-> 20, tp2 |-> 40, tp3 |-> 60, tp4 |-> 80, sl |-> 35]

\* calculateTradingLevels(entry, direction): entry * (1 +/- ratio), here in
\* units of 0.0000001
calculateTradingLevels(entry, direction) ==
    IF direction = "LONG"
    THEN [tp1 |-> entry * (1000 + RiskReward.tp1), tp2 |-> entry * (1000 + RiskReward.tp2),
          tp3 |-> entry * (1000 + RiskReward.tp3), tp4 |-> entry * (1000 + RiskReward.tp4),
          sl |-> entry * (1000 - RiskReward.sl)]
    ELSE [tp1 |-> entry * (1000 - RiskReward.tp1), tp2 |-> entry * (1000 - RiskReward.tp2),
          tp3 |-> entry * (1000 - RiskReward.tp3), tp4 |-> entry * (1000 - RiskReward.tp4),
          sl |-> entry * (1000 + RiskReward.sl)]

\* parseFloat(x.toFixed(2)) for x >= 0 given in units of 0.0000001: the
\* nearest hundredth, in hundredths
ToFixed2(x) == (x + 50000) \div 100000

\* the entry and levels generateSignal stores, in hundredths
StoredLevels(entry, direction) ==
    LET levels == calculateTradingLevels(entry, direction)
    IN  [entry |-> ToFixed2(entry * 1000),
         tp1 |-> ToFixed2(levels.tp1), tp2 |-> ToFixed2(levels.tp2),
         tp3 |-> ToFixed2(levels.tp3), tp4 |-> ToFixed2(levels.tp4),
         sl |-> ToFixed2(levels.sl)]

\* prices 0.001, 0.20, 1.01 and 100 (none of their levels lies half way
\* between two hundredths)
ProbeEntries == {10, 2000, 10100, 1000000}

ProbeTradingLevels(entry, direction) ==
    probe' = [fn |-> "calculateTradingLevels", entry |-> entry, direction |-> direction,
              stored |-> StoredLevels(entry, direction)]

detectIdle == UNCHANGED <<hubVars, mdsVars, sigVars, initVars, scanVars, returned, whVars, pnlVars>>

NextDetect ==
    \/ \E cur \in ProbeCloses, prev \in ProbeCloses, t \in ProbeThresholds :
          ProbePriceBreakout(cur, prev, t) /\ detectIdle
    \/ \E v \in ProbeVolumes, t \in ProbeSpikeThresholds :
          ProbeVolumeSpike(v, t) /\ detectIdle
    \/ \E t \in ProbeTurnovers, c \in ProbeChanges, v \in ProbeWhaleVolumes :
          ProbeWhaleActivity(t, c, v) /\ detectIdle
    \/ \E n \in ProbeLengths, enabled \in SUBSET Methods :
          \E spikes \in PossibleSpikes(n) :
             ProbeAnalyzeVolume(n, enabled, spikes) /\ detectIdle
    \/ \E entry \in ProbeEntries, direction \in {"LONG", "SHORT"} :
          ProbeTradingLevels(entry, direction) /\ detectIdle

(***************************************************************************)
(*        The kline store on its own, started near its capacity            *)
(***************************************************************************)
MaxKlineUpdates == 3       \* kline messages handled in one run of the model

\* n candles received in time order
Ramp(n) == [i \in 1..n |-> Candle(i, 100, 10)]

StoreKey == <<"BTCUSDT", "1m">>

\* The service after it has followed the 1m stream of one symbol for a while:
\* nothing stored yet, or one candle short of the capacity, received in time
\* order.  No ticker has arrived yet.
InitKline ==
    /\ InitHub
    /\ hubKind = "io"
    /\ mdsKind \in {"basic", "adv"}
    /\ marketData = [s \in FeedSymbols |-> AbsentMD]
    /\ klineData \in {[k \in KlineKeys |-> IF k = StoreKey THEN first ELSE <<>>] :
                         first \in {<<>>, Ramp(MaxCandles - 1)}}
    /\ orderBookData = [s \in FeedSymbols |-> AbsentOB]
    /\ signalData = [s \in FeedSymbols |-> AbsentSD]
    /\ volumeData = [s \in FeedSymbols |-> <<>>]
    /\ scannerFilters = InitFilters
    /\ now = 0
    /\ alertTimes = [s \in FeedSymbols |-> <<>>]
    /\ lastEval = NoEval
    /\ updates = 0
    /\ InitSig
    /\ InitStartup
    /\ InitScan
    /\ InitDetect

StoreCandles ==
    {Candle(ts, c, 10) : ts \in {MaxCandles - 1, MaxCandles, MaxCandles + 1},
                         c \in {100, 105}}

NextKline ==
    \/ /\ updates < MaxKlineUpdates
       /\ \E i \in Intervals, k \in StoreCandles : HandleKlineUpdate("BTCUSDT", i, k)
       /\ hubIdle
    \/ \E i \in Intervals : GetKlineData("BTCUSDT", i)

(***************************************************************************)
(*                         Specifications                                  *)
(***************************************************************************)
\* the market data service and the signal service are idle
mdsIdle ==
    /\ UNCHANGED <<mdsKind, marketData, klineData, orderBookData, signalData,
                   volumeData, scannerFilters, now, alertTimes, lastEval, updates>>
    /\ UNCHANGED sigVars
    /\ UNCHANGED initVars
    /\ UNCHANGED scanVars
    /\ UNCHANGED detVars

NextHub ==
    \/ \E c \in Consumers : Connect(c) /\ mdsIdle
    \/ \E c \in Consumers, chs \in (SUBSET Channels) \ {{}} :
          HandleSubscription(c, chs) /\ mdsIdle
    \/ \E c \in Consumers, chs \in (SUBSET Channels) \ {{}} :
          HandleUnsubscription(c, chs) /\ mdsIdle
    \/ \E c \in Consumers, payload \in BadPayloads :
          HandleSubscriptionNoChannels(c, payload) /\ mdsIdle
    \/ \E c \in Consumers, payload \in BadPayloads :
          HandleUnsubscriptionNoChannels(c, payload) /\ mdsIdle
    \/ \E c \in Consumers : HandleDisconnect(c) /\ mdsIdle
    \/ \E c \in Consumers : HandleError(c) /\ mdsIdle
    \/ \E c \in Consumers : WsClosing(c) /\ mdsIdle
    \/ \E c \in Consumers : Stall(c) /\ mdsIdle
    \/ \E c \in Consumers : Flush(c) /\ mdsIdle
    \/ \E channel \in Channels \cup {NoChannel} :
          \E failing \in SUBSET Attempted(channel) : Broadcast(channel, failing) /\ mdsIdle

Init == InitHub /\ InitMds /\ InitSig /\ InitStartup /\ InitScan /\ InitDetect

Next ==
    \/ NextHub
    \/ NextMarket
    \/ NextConfig
    \/ NextKline
    \/ NextSignal
    \/ NextStartup
    \/ NextScan
    \/ NextScanConn
    \/ NextDetect
    \/ NextWebhook
    \/ NextPnl

Spec == Init /\ [][Next]_vars

\* the hub alone, beside a market data service that receives nothing
InitHubOnly == InitHub /\ InitMds /\ InitSig /\ InitStartup /\ InitScan /\ InitDetect /\ mdsKind = "basic"
SpecHub == InitHubOnly /\ [][NextHub]_vars

\* the market data service alone, beside a hub nobody connects to
InitMarketOnly == InitHub /\ InitMds /\ InitSig /\ InitStartup /\ InitScan /\ InitDetect /\ hubKind = "io"
SpecMarket == InitMarketOnly /\ [][NextMarket]_vars

\* the market data service under order-book and configuration updates
SpecConfig == InitMarketOnly /\ [][NextConfig]_vars

\* the signal service alone
InitSignalOnly == InitHub /\ InitMds /\ InitSig /\ InitStartup /\ InitScan /\ InitDetect /\ hubKind = "io" /\ mdsKind = "basic"
SpecSignal == InitSignalOnly /\ [][NextSignal]_vars

InitStartupOnly == InitHub /\ InitMds /\ InitSig /\ InitStartup /\ InitScan /\ InitDetect /\ hubKind = "io"
SpecStartup == InitStartupOnly /\ [][NextStartup]_vars
\* the runtime runs every continuation and every timer that is due
SpecStartupFair == SpecStartup /\ WF_vars(NextStartup)

InitScanOnly ==
    InitHub /\ InitMds /\ InitSig /\ InitStartup /\ InitScan /\ InitDetect
    /\ hubKind = "io" /\ mdsKind = "basic"
SpecScan == InitScanOnly /\ [][NextScan]_vars

\* the console scanner's connection alone
SpecScanConn == InitScanOnly /\ [][NextScanConn]_vars

InitDetectOnly ==
    InitHub /\ InitMds /\ InitSig /\ InitStartup /\ InitScan /\ InitDetect
    /\ hubKind = "io" /\ mdsKind = "adv"
SpecDetect == InitDetectOnly /\ [][NextDetect]_vars

\* the webhook routes alone
SpecWebhook == InitDetectOnly /\ [][NextWebhook]_vars

\* the PnL service alone
SpecPnl == InitDetectOnly /\ [][NextPnl]_vars

\* the kline store alone
SpecKline == InitKline /\ [][NextKline]_vars

(***************************************************************************)
(*                    Properties of the pub/sub hub                        *)
(***************************************************************************)
\* The position of consumer c in the registry the last broadcast walked
Position(c) == CHOOSE i \in 1..Len(lastAct.order) : lastAct.order[i] = c

\* c was in the registry of the last broadcast with a working socket and a
\* subscription set (as it stood when the broadcast began) that admits the
\* channel: the broadcast owes c the event.
Owed(c) ==
    /\ c \in Range(lastAct.order)
    /\ c \notin lastAct.failing
    /\ hubKind = "ws" => sockOpen[c]
    /\ \/ lastAct.channel = NoChannel
       \/ (hubKind = "ws" /\ lastAct.subs[c] = NoSubs)
       \/ (lastAct.subs[c] # NoSubs /\ lastAct.channel \in lastAct.subs[c])

\* The consumers whose emit/send threw in the last broadcast
Threw ==
    {f \in lastAct.failing \cap Range(lastAct.order) :
        /\ hubKind = "ws" => sockOpen[f]
        /\ \/ lastAct.channel = NoChannel
           \/ (hubKind = "ws" /\ lastAct.subs[f] = NoSubs)
           \/ (lastAct.subs[f] # NoSubs /\ lastAct.channel \in lastAct.subs[f])}

\* C1: during a publish, a consumer whose delivery does not complete (its
\* transport is stalled) does not keep the event from any other eligible
\* consumer: whenever the registry of a broadcast held a stalled consumer,
\* every other consumer the broadcast owed the event was sent it in that same
\* broadcast, whether it comes before or after the stalled one.
C1_StalledConsumerDoesNotBlock ==
    lastAct.op = "broadcast" =>
        \A b \in stalled \cap Range(lastAct.order) :
            \A c \in Range(lastAct.order) \ {b} :
                Owed(c) => c \in lastAct.sent

\* C1 witness: a broadcast handed the event to a stalled consumer and then
\* reached a consumer behind it in the registry.
C1_Witness ==
    /\ lastAct.op = "broadcast"
    /\ \E b \in stalled \cap lastAct.sent, c \in lastAct.sent :
          /\ c # b
          /\ Position(b) < Position(c)

\* C3: if delivery to a consumer throws during a publish, that consumer is
\* removed from the registry and every other consumer the broadcast owed the
\* event was sent it in that same broadcast.
C3_ThrowIsolatedAndPruned ==
    lastAct.op = "broadcast" =>
        \A f \in Threw :
            /\ f \notin Range(clients)
            /\ f \in lastAct.pruned
            /\ \A c \in Range(lastAct.order) \ {f} :
                  Owed(c) => c \in lastAct.sent

\* C3 witness: the send to one consumer threw, it is gone from the registry,
\* and a consumer behind it in the registry was sent the event.
C3_Witness ==
    /\ lastAct.op = "broadcast"
    /\ \E f \in Threw, c \in lastAct.sent :
          /\ Position(f) < Position(c)
          /\ f \notin Range(clients)
          /\ c \in Range(clients)

\* C4: a consumer whose subscription set when a publish begins is exactly
\* {"signals"} is not sent an event published on channel "market", in either
\* hub and after any sequence of subscribe, unsubscribe and publish.
C4_SignalsOnlyGetsNoMarket ==
    (lastAct.op = "broadcast" /\ lastAct.channel = "market") =>
        \A c \in Range(lastAct.order) :
            lastAct.subs[c] = {"signals"} => c \notin lastAct.sent

\* C4 witness: a "market" broadcast passed over a healthy consumer subscribed
\* to "signals" only while it served another consumer.
C4_Witness ==
    /\ lastAct.op = "broadcast"
    /\ lastAct.channel = "market"
    /\ \E c \in Range(lastAct.order) :
          /\ lastAct.subs[c] = {"signals"}
          /\ c \notin lastAct.failing
          /\ sockOpen[c]
          /\ c \notin lastAct.sent
          /\ lastAct.sent \ {c} # {}

\* C5 as stated: in the Socket.IO hub a connected consumer with no
\* subscription is sent the events published on channel "market".
C5_UnsubscribedReceivesMarket ==
    (hubKind = "io" /\ lastAct.op = "broadcast" /\ lastAct.channel = "market") =>
        \A c \in Range(lastAct.order) :
            (lastAct.subs[c] = {} /\ c \notin lastAct.failing) => c \in lastAct.sent

\* C5 (amended): in the Socket.IO hub a connected consumer with an empty
\* subscription set is sent an event exactly when the event is published
\* without a channel (and its emit does not throw); it is never sent an event
\* published on channel "market" or "signals".
C5_UnsubscribedReceivesOnlyUnchannelled ==
    (hubKind = "io" /\ lastAct.op = "broadcast") =>
        \A c \in Range(lastAct.order) :
            lastAct.subs[c] = {} =>
                (c \in lastAct.sent <=>
                    (lastAct.channel = NoChannel /\ c \notin lastAct.failing))

\* C5 witness: a "market" broadcast of the Socket.IO hub left out a healthy
\* consumer with an empty subscription set and served a subscriber.
C5_Witness ==
    /\ hubKind = "io"
    /\ lastAct.op = "broadcast"
    /\ lastAct.channel = "market"
    /\ \E c \in Range(lastAct.order), d \in lastAct.sent :
          /\ lastAct.subs[c] = {}
          /\ c \notin lastAct.failing
          /\ c \notin lastAct.sent
          /\ "market" \in lastAct.subs[d]

(***************************************************************************)
(*                    Properties of the kline store                        *)
(***************************************************************************)
\* C6 as stated: after any sequence of kline updates, also ones that arrive
\* out of timestamp order, every stored series is in ascending order of
\* candle open time.
C6_SeriesSortedByOpenTime ==
    \A key \in KlineKeys :
        \A i, j \in 1..Len(klineData[key]) :
            i < j => klineData[key][i].timestamp < klineData[key][j].timestamp

\* C7: every stored series holds at most 100 candles.
C7_SeriesAtMostMaxCandles ==
    \A key \in KlineKeys : Len(klineData[key]) <= MaxCandles

\* C7 witness: a candle with a new open time arrived at a full series; the
\* series is still full and the oldest candle went out.
C7_Witness ==
    /\ lastEval.op = "kline"
    /\ Len(lastEval.seriesBefore) = MaxCandles
    /\ FindIndex(lastEval.seriesBefore, lastEval.kline[1].timestamp) = 0
    /\ Len(klineData[lastEval.key]) = MaxCandles
    /\ klineData[lastEval.key][1] = lastEval.seriesBefore[2]
    /\ klineData[lastEval.key][MaxCandles] = lastEval.kline[1]

\* C8: a kline update whose open time equals that of a stored candle of the
\* series replaces that candle where it stands: the series keeps its length
\* and every other candle stays as it was.
C8_SameOpenTimeReplacesInPlace ==
    lastEval.op = "kline" =>
        \A i \in 1..Len(lastEval.seriesBefore) :
            lastEval.seriesBefore[i].timestamp = lastEval.kline[1].timestamp =>
                /\ Len(klineData[lastEval.key]) = Len(lastEval.seriesBefore)
                /\ klineData[lastEval.key][i] = lastEval.kline[1]
                /\ \A j \in 1..Len(lastEval.seriesBefore) :
                      j # i => klineData[lastEval.key][j] = lastEval.seriesBefore[j]

\* C8 witness: an update changed the close of a stored candle that is not the
\* last one of its series.
C8_Witness ==
    /\ lastEval.op = "kline"
    /\ \E i \in 1..Len(lastEval.seriesBefore) :
          /\ lastEval.seriesBefore[i].timestamp = lastEval.kline[1].timestamp
          /\ lastEval.seriesBefore[i] # lastEval.kline[1]
          /\ i < Len(lastEval.seriesBefore)
          /\ klineData[lastEval.key][i] = lastEval.kline[1]

(***************************************************************************)
(*                Properties of the market data service                    *)
(***************************************************************************)
\* C2 as stated: when two evaluations of a symbol both have findings and are
\* less than the minimum alert interval apart, one "signals" event is emitted
\* for the symbol, not two: two "signals" events of one symbol are at least
\* the minimum alert interval apart.
C2_OneAlertPerInterval ==
    \A s \in FeedSymbols :
        Len(alertTimes[s]) = 2 =>
            alertTimes[s][2] - alertTimes[s][1] >= MinAlertInterval

\* C9 as stated: a ticker update that leaves a field out, or carries a value
\* that is no number for it, leaves the stored value of that field as it was.
C9_BadFieldKeepsStoredValue ==
    lastEval.op = "ticker" =>
        \A n \in 1..Len(lastEval.processed) :
            LET p == lastEval.processed[n]
            IN  p.before.present =>
                  /\ p.input.lastPrice.kind # "num" => p.after.price = p.before.price
                  /\ p.input.price24hPcnt.kind # "num" =>
                        p.after.change24h = p.before.change24h
                  /\ p.input.volume24h.kind # "num" =>
                        p.after.volume24h = p.before.volume24h
                  /\ p.input.turnover24h.kind # "num" =>
                        p.after.turnover24h = p.before.turnover24h

\* C10 as stated: after an evaluation of a symbol that has no findings, the
\* symbol has no signal record and its market entry neither says
\* hasSignals = true nor lists active filters.
C10_NoFindingsClearsSignalState ==
    \A s \in lastEval.zero :
        /\ ~signalData[s].present
        /\ ~marketData[s].hasSignals
        /\ marketData[s].activeFilters = <<>>


(***************************************************************************)
(*          Properties of detection, order books and configuration         *)
(***************************************************************************)
\* The enable flag of each detector that has one
FlagOf == [spoof_detection |-> "spoofDetection",
           liquidity_imbalance |-> "liquidityImbalance",
           whale_alert |-> "whaleAlerts"]

\* C11 as stated: after an evaluation of a symbol, a detector whose enable
\* flag is off has no finding in the symbol's signal record and no entry among
\* the active filters of its market entry.
C11_DisabledDetectorContributesNothing ==
    lastEval.op = "orderbook" =>
        \A s \in lastEval.found, d \in DOMAIN FlagOf :
            ~scannerFilters[FlagOf[d]] =>
                /\ d \notin Range(signalData[s].signals)
                /\ d \notin Range(marketData[s].activeFilters)

\* C12: the stored order-book snapshot of a symbol is, bids and asks together,
\* what one update message carried.
C12_SnapshotFromOneMessage ==
    \A s \in FeedSymbols :
        orderBookData[s].present =>
            \E b \in ConfigBooks :
                /\ orderBookData[s].bids = b.bids
                /\ orderBookData[s].asks = b.asks

\* C12 witness: an update without asks replaced a snapshot that had asks and
\* other bids.
C12_Witness ==
    /\ lastEval.op = "orderbook"
    /\ lastEval.bookBefore[1].present
    /\ lastEval.bookBefore[1].asks # <<>>
    /\ orderBookData["BTCUSDT"].asks = <<>>
    /\ orderBookData["BTCUSDT"].bids # lastEval.bookBefore[1].bids

\* C14 as stated: a configuration update that sets the volume-spike or the
\* price-breakout threshold to 1 or less is rejected: the configuration in
\* effect afterwards is the one from before the update.
C14_BadThresholdRejected ==
    lastEval.op = "filters" =>
        \A f \in {"volumeSpike", "priceBreakout"} \cap DOMAIN lastEval.patch :
            lastEval.patch[f] <= 1000 => scannerFilters = lastEval.filtersBefore[1]


(***************************************************************************)
(*                  Properties of the signal service                       *)
(***************************************************************************)
\* C13: after any sequence of startSignalGeneration and stopSignalGeneration
\* calls at most one periodic timer is live, and right after a stop none is.
C13_AtMostOneTimer ==
    /\ Cardinality(liveTimers) <= 1
    /\ sigLast = "stop" => liveTimers = {}

\* C13 witness: generation was started, restarted and then stopped, so a second
\* timer was made and the stop found a timer to clear.
C13_Witness ==
    /\ sigLast = "stop"
    /\ timersMade >= 2
    /\ liveTimers = {}
    /\ signalInterval = 0



(***************************************************************************)
(* C15: initialize() sets isInitialized only when the connection test and  *)
(* the initial data fetch both succeeded; when one of them failed the      *)
(* promise is rejected and isInitialized stays false.                      *)
(***************************************************************************)
C15_InitializedOnlyOnSuccess ==
    /\ isInitialized => (testOk = "ok" /\ fetchOk = "ok")
    /\ (initPc = "done" /\ (testOk = "failed" \/ fetchOk = "failed"))
          => (initResult = "rejected" /\ ~isInitialized)

(***************************************************************************)
(* C16: whenever the upstream feed connection closes, a reconnect attempt  *)
(* eventually follows, that is, the connection leaves the closed state.    *)
(***************************************************************************)
C16_CloseLeadsToReconnect == (feedState = "closed") ~> (feedState # "closed")


(***************************************************************************)
(* C17: evaluating the detectors twice on the same stored state with the   *)
(* same thresholds gives the same findings, whatever Math.random() draws.  *)
(***************************************************************************)
C17_FindingsIndependentOfDraw ==
    \A s \in FeedSymbols :
        (mdsKind = "basic" /\ marketData[s].present) =>
            CheckForSignals(marketData[s], s, volumeData[s], klineData, TRUE).signals
              = CheckForSignals(marketData[s], s, volumeData[s], klineData, FALSE).signals


(***************************************************************************)
(* C18: in the console scanner any two alerts for one symbol are at least  *)
(* one rate-limit window (60 s) apart, whatever kline and order-book       *)
(* updates for this and for other symbols come in between.                 *)
(***************************************************************************)
C18_ScannerAlertsOneWindowApart ==
    \A s \in ScanSymbols :
        Len(scAlerts[s]) = 2 => scAlerts[s][2] - scAlerts[s][1] >= MinAlertInterval

C18_Witness ==
    /\ Len(scAlerts["BTCUSDT"]) = 2
    /\ Len(scAlerts["ETHUSDT"]) >= 1
    /\ scHandlers = 2
    /\ ShouldAlert(scData["BTCUSDT"], scFilters)
    /\ scData["BTCUSDT"].lastAlertTime = scNow


(***************************************************************************)
(* C19: a consumer that was removed from the registry (its socket still    *)
(* alive) stays out of it, is delivered nothing by any later publish, and  *)
(* in the io hub its subscribe and unsubscribe messages do not bring back  *)
(* a subscription set for it.                                              *)
(***************************************************************************)
Removed(c) == sockOpen[c] /\ c \notin Range(clients)

C19_RemovedConsumerStaysOut ==
    [][\A c \in Consumers :
          (Removed(c) /\ sockOpen'[c]) =>
              /\ c \notin Range(clients')
              /\ c \notin lastAct'.sent
              /\ hubKind = "io" => subscriptions'[c] = subscriptions[c]]_vars

C19_Witness ==
    /\ hubKind = "io"
    /\ \E c \in Consumers : Removed(c)
    /\ lastAct.op = "broadcast"
    /\ lastAct.channel = NoChannel
    /\ lastAct.sent # {}

(***************************************************************************)
(* C20: subscribing a consumer to the channels it has just subscribed to,  *)
(* or unsubscribing it from the channels it has just unsubscribed from,    *)
(* leaves its subscription set as it was after the first call.             *)
(***************************************************************************)
C20_SubscribeTwiceSameAsOnce ==
    \A c \in Consumers : \A chs \in (SUBSET Channels) \ {{}} :
        LET added == AddChannels(subscriptions[c], chs)
            removed == RemoveChannels(subscriptions[c], chs)
        IN  /\ AddChannels(added, chs) = added
            /\ RemoveChannels(removed, chs) = removed

C20_Witness ==
    \E c, d \in Range(clients) :
        /\ hubKind = "ws"
        /\ subscriptions[c] = Channels
        /\ subscriptions[d] = {}
        /\ c # d

(***************************************************************************)
(* C21: when the bid side or the ask side of a stored order book is empty, *)
(* the order-book imbalance detector reports no imbalance.                 *)
(***************************************************************************)
C21_EmptySideNoImbalance ==
    \A s \in FeedSymbols :
        (orderBookData[s].present
           /\ (orderBookData[s].bids = <<>> \/ orderBookData[s].asks = <<>>))
        => ~detectOrderBookImbalance(orderBookData[s], 1010).isImbalanced

(***************************************************************************)
(* C22: for a threshold above 1 and positive closes, every price-breakout  *)
(* detector reports up exactly when close[t] > close[t-1] * threshold,     *)
(* down exactly when close[t] < close[t-1] / threshold, and nothing        *)
(* otherwise.                                                              *)
(***************************************************************************)
C22_Expected(cur, prev, threshold) ==
    IF cur * 1000 > prev * threshold THEN "up"
    ELSE IF cur * threshold < prev * 1000 THEN "down"
    ELSE "null"

C22_BreakoutExactlyByThreshold ==
    probe.fn = "detectPriceBreakout" =>
        /\ probe.direction = C22_Expected(probe.cur, probe.prev, probe.threshold)
        /\ probe.stored = C22_Expected(probe.cur, probe.prev, probe.threshold)

(***************************************************************************)
(* C23: with at least 2 candles (newest first) every volume-spike detector *)
(* reports a spike exactly when the newest volume exceeds threshold times  *)
(* the mean volume of the earlier candles; with a zero mean exactly when   *)
(* the newest volume is positive; with fewer than 2 candles never.         *)
(***************************************************************************)
C23_Expected(volumes, threshold) ==
    IF Len(volumes) < 2 THEN FALSE
    ELSE IF SumSeq(Tail(volumes)) = 0 THEN volumes[1] > 0
    ELSE volumes[1] * (Len(volumes) - 1) * 1000 > SumSeq(Tail(volumes)) * threshold

C23_SpikeExactlyAboveMean ==
    probe.fn = "detectVolumeSpike" =>
        /\ probe.isSpike = C23_Expected(probe.volumes, probe.threshold)
        /\ probe.scanner = C23_Expected(probe.volumes, probe.threshold)

(***************************************************************************)
(* C24: a whale-activity finding is produced exactly when the 24h turnover *)
(* exceeds the minimum turnover (10000) and the absolute 24h change        *)
(* exceeds the minimum change (0.1 percent), and in no other case.         *)
(***************************************************************************)
C24_WhaleExactlyOnTurnoverAndChange ==
    probe.fn = "detectWhaleActivityAdvanced" =>
        (probe.type # "null") = (probe.turnover > 10000 /\ Abs(probe.change) > 10)

(***************************************************************************)
(* C25: analyzeVolume reports a volume signal exactly when at least 2 of   *)
(* its enabled methods report a spike, and for every input its             *)
(* signalStrength is the number of agreeing methods divided by 4.          *)
(* The second half fails below ten candles, where the result carries no    *)
(* signalStrength at all; it holds from ten candles on.                    *)
(***************************************************************************)
C25_Agreeing == Cardinality(probe.enabled \cap probe.spikes)

C25_StrengthForEveryInput ==
    probe.fn = "analyzeVolume" =>
        /\ probe.result.isVolumeSignal = (C25_Agreeing >= 2)
        /\ probe.result.hasStrength
        /\ probe.result.signalCount = C25_Agreeing

C25_StrengthFromTenCandles ==
    probe.fn = "analyzeVolume" =>
        /\ probe.result.isVolumeSignal = (C25_Agreeing >= 2)
        /\ probe.n >= MinAnalysisCandles =>
              (probe.result.hasStrength /\ probe.result.signalCount = C25_Agreeing)
        /\ probe.n < MinAnalysisCandles => ~probe.result.hasStrength

C25_Witness ==
    /\ probe.fn = "analyzeVolume"
    /\ probe.n >= MinAnalysisCandles
    /\ probe.result.isVolumeSignal
    /\ probe.result.signalCount = 2
    /\ probe.spikes \ probe.enabled # {}

(***************************************************************************)
(* C26: the array returned by getKlineData is a snapshot: kline updates    *)
(* that arrive after the call do not change what the caller reads from it. *)
(***************************************************************************)
C26_ReturnedArrayIsSnapshot ==
    returned.held => ReturnedView = returned.atReturn

(***************************************************************************)
(* C27: for a ticker message that carries several symbols, every valid     *)
(* symbol of the message has its ticker stored and its marketUpdate        *)
(* emitted, whatever happens while the other symbols are processed.        *)
(***************************************************************************)
C27_EveryValidSymbolProcessed ==
    lastEval.op = "ticker" =>
        \A i \in 1..Len(lastEval.symbols) :
            (mdsKind = "basic" \/ isValidSymbol(lastEval.symbols[i])) =>
                \E n \in 1..Len(lastEval.processed) :
                    lastEval.processed[n].symbol = lastEval.symbols[i]

(***************************************************************************)
(* C28: while generation is running, a single marketUpdate event for a     *)
(* selected coin creates at most one new signal, whatever sequence of      *)
(* starts and stops came before.                                           *)
(***************************************************************************)
C28_OneSignalPerMarketUpdate ==
    sigLast = "update" => sigMade <= 1

(***************************************************************************)
(* C29: startSignalGeneration returns success: true only when generation   *)
(* is running afterwards: isGenerating is true and the timer is set.       *)
(***************************************************************************)
C29_SuccessMeansRunning ==
    (sigLast = "start" /\ sigSuccess) =>
        (isGenerating /\ signalInterval # 0 /\ signalInterval \in liveTimers)

(***************************************************************************)
(* C30: while generation is stopped no signal is stored and no newSignal   *)
(* is emitted, not even by a market update or by a periodic check that was *)
(* waiting for its market data when stop was called.                       *)
(***************************************************************************)
C30_NoSignalWhileStopped ==
    ~isGenerating => sigMade = 0

\* a periodic check that was in progress across a stop went on to its
\* generateSignal calls and made nothing
C30_Witness ==
    /\ sigLast = "periodic"
    /\ ~isGenerating
    /\ sigCalls > 0
    /\ sigMade = 0

(***************************************************************************)
(* C31: a subscribe or unsubscribe message without a channels list (or     *)
(* without any payload) raises no uncaught exception in the hub and leaves *)
(* the registry and every consumer's subscription set unchanged.           *)
(***************************************************************************)
C31_NoChannelsIsHarmless ==
    [][lastAct'.op \in {"returned", "caught", "uncaught"} =>
          /\ lastAct'.op # "uncaught"
          /\ clients' = clients
          /\ subscriptions' = subscriptions]_vars

(***************************************************************************)
(* C32: in the console scanner each close of the upstream connection leads *)
(* to exactly one reconnect attempt (one timer of 5 seconds), however many *)
(* closes or timeframe switches came before.                               *)
(***************************************************************************)
C32_OneReconnectPerClose ==
    [][(scOpen /\ ~scOpen') => scReconnects' = scReconnects + 1]_vars

(***************************************************************************)
(* C33: after a switch of the timeframe, the kline data the scanner stores *)
(* and analyses for a symbol comes from the kline stream of the selected   *)
(* timeframe only.                                                         *)
(***************************************************************************)
C33_KlinesFromSelectedTimeframe ==
    [][\A s \in ScanSymbols :
          scData'[s].klineFrom # scData[s].klineFrom
              => scData'[s].klineFrom = scTimeframe']_vars

(***************************************************************************)
(* C34: a symbol's lastAlertTime changes only in a step that emits an      *)
(* alert for that symbol, and is then the time of that evaluation; steps   *)
(* whose evaluations are rate-limited or find nothing leave it unchanged.  *)
(***************************************************************************)
C34_LastAlertTimeOnlyAtAlert ==
    [][\A s \in ScanSymbols :
          /\ scData'[s].lastAlertTime # scData[s].lastAlertTime =>
                /\ scAlerts'[s] # scAlerts[s]
                /\ scAlerts'[s][Len(scAlerts'[s])] = scNow
                /\ scData'[s].lastAlertTime = scNow
          /\ scAlerts'[s] # scAlerts[s] => scData'[s].lastAlertTime = scNow]_vars

\* an alert was written one tick ago, a finding is still active, and the
\* evaluations since were rate-limited: lastAlertTime is still the alert's time
C34_Witness ==
    \E s \in ScanSymbols :
        /\ scData[s].hasKline
        /\ scAlerts[s] # <<>>
        /\ scData[s].lastAlertTime = scAlerts[s][Len(scAlerts[s])]
        /\ scNow = scData[s].lastAlertTime + 1
        /\ ShouldAlert(scData[s], scFilters)
        /\ RateLimited(scNow, scData[s].lastAlertTime)

(***************************************************************************)
(* C35: in the ws hub a consumer that subscribed to some channels and then *)
(* unsubscribed from all of them (its subscription set is empty again) is  *)
(* sent the same channel publishes as a consumer that never subscribed.    *)
(***************************************************************************)
C35_UnsubscribedAllSameAsNever ==
    (hubKind = "ws" /\ lastAct.op = "broadcast" /\ lastAct.channel # NoChannel) =>
        \A c, d \in Range(lastAct.order) :
            (/\ lastAct.subs[c] = {}
             /\ lastAct.subs[d] = NoSubs
             /\ c \notin lastAct.pruned
             /\ d \notin lastAct.pruned)
                => (c \in lastAct.sent <=> d \in lastAct.sent)

(***************************************************************************)
(* C36: at all times every signal id is in at most one of the active       *)
(* signals and the signal history, whatever sequence of generate,          *)
(* status-update and clear operations has run.                             *)
(***************************************************************************)
C36_ActiveAndHistoryDisjoint ==
    /\ signals \cap Range(signalHistory) = {}
    /\ \A i, j \in 1..Len(signalHistory) :
          i # j => signalHistory[i] # signalHistory[j]

\* a signal was closed and moved while another is still active, and the
\* history has been trimmed at least once
C36_Witness ==
    /\ signals # {}
    /\ Len(signalHistory) = MaxHistory
    /\ idsMade > Cardinality(signals) + Len(signalHistory)
    /\ sigLast = "status"

(***************************************************************************)
(* C37: a symbol's activeFilters list holds at most one entry per detector *)
(* type, so that filterCount is the number of distinct detectors active    *)
(* for the symbol.                                                         *)
(***************************************************************************)
C37_OneEntryPerDetector ==
    \A s \in FeedSymbols :
        LET af == marketData[s].activeFilters
        IN  \A i, j \in 1..Len(af) : af[i] = af[j] => i = j

(***************************************************************************)
(* C38: for every generated LONG signal with a positive entry price the    *)
(* stored levels satisfy sl < entry < tp1 < tp2 < tp3 < tp4, and for every *)
(* SHORT signal tp4 < tp3 < tp2 < tp1 < entry < sl, after the rounding to  *)
(* two decimals applied when the signal is stored.                         *)
(***************************************************************************)
C38_StoredLevelsOrdered ==
    (probe.fn = "calculateTradingLevels" /\ probe.entry > 0) =>
        LET l == probe.stored
        IN  IF probe.direction = "LONG"
            THEN l.sl < l.entry /\ l.entry < l.tp1 /\ l.tp1 < l.tp2
                 /\ l.tp2 < l.tp3 /\ l.tp3 < l.tp4
            ELSE l.tp4 < l.tp3 /\ l.tp3 < l.tp2 /\ l.tp2 < l.tp1
                 /\ l.tp1 < l.entry /\ l.entry < l.sl

\* the waits the loop takes between the attempts of a request with r retries
BackoffWaits(r) == [a \in 1..(r - 1) |-> Backoff(a)]

\* C39: once /send has answered a request all of whose POST attempts failed,
\* it has made exactly `retries` attempts, has waited
\* min(1000*2^(attempt-1), 5000) ms between them, and the answer is
\* 'Webhook failed after all retries'.
C39_AllRetriesThenFailed ==
    (whPc = "idle" /\ whFails >= 1 /\ whFails = whPosts)
        => /\ whPosts = whRetries
           /\ whDelays = BackoffWaits(whRetries)
           /\ whResponse = "failed_after_all_retries"

\* C40: a trade that addTrade has returned and deleteTrade has not removed is
\* in the in-memory trade list, also when addTrade was called while the
\* initial load of the service was still in progress.
C40_ReturnedTradeStays ==
    \A id \in returnedTrades \ deletedTrades : id \in Range(trades)

=============================================================================
